---- MODULE Spec2Model ----
(***************************************************************************)
(* Compatibility resolution engine of ascend-docker-kit: the version       *)
(* ordering of adk_core/version.py, the matrix data model of               *)
(* adk_core/models.py and the resolver of adk_core/matrix.py.              *)
(*                                                                         *)
(* A Python str that holds a version is a sequence of one-character        *)
(* strings, so that parsing is computed and not assumed.  Names of         *)
(* operating systems, NPU types and architectures are atomic strings.      *)
(***************************************************************************)
EXTENDS Integers, Sequences, FiniteSets, TLC

VARIABLES matrix, call, result

\* The loader: the file at the loaded path, _yaml_cache, the from_yaml call
\* of each thread, the number of matrix objects constructed (an object is
\* its number and its value), the first object inserted for each key since
\* the cache was last cleared, and the number of from_yaml calls made.
VARIABLES file, yaml_cache, frames, allocated, built, calls

loader == <<file, yaml_cache, frames, allocated, built, calls>>

vars == <<matrix, call, result, loader>>

(***************************************************************************)
(* Python values                                                           *)
(***************************************************************************)

\* None where a version str is optional: no sequence of characters equals it.
None == <<"None">>

\* None where an atomic str is optional (os_name, npu_type filters).
NoneStr == "<None>"

\* None where a dict, a model object or a message is optional.
NoneRec == [None |-> TRUE]

\* Truthiness of an optional version str: None and "" are falsy.
Truthy(s) == s # None /\ s # << >>

\* Truthiness of an optional atomic str.
TruthyStr(s) == s # NoneStr /\ s # ""

Str_8_0      == <<"8", ".", "0">>
Str_8_0_0    == <<"8", ".", "0", ".", "0">>
Str_9_0_0    == <<"9", ".", "0", ".", "0">>
Str_10_0_0   == <<"1", "0", ".", "0", ".", "0">>
Str_10_0_rc1 == <<"1", "0", ".", "0", ".", "r", "c", "1">>
Str_abc      == <<"a", "b", "c">>
Str_8_0_dev1  == <<"8", ".", "0", ".", "d", "e", "v", "1">>
Str_8_0_a1    == <<"8", ".", "0", "a", "1">>
Str_8_0_a2    == <<"8", ".", "0", "a", "2">>
Str_8_0_b1    == <<"8", ".", "0", "b", "1">>
Str_8_0_rc1   == <<"8", ".", "0", "r", "c", "1">>
Str_8_0_rc2   == <<"8", ".", "0", "r", "c", "2">>
Str_8_0_post1 == <<"8", ".", "0", ".", "p", "o", "s", "t", "1">>
Str_empty    == << >>

\* Python versions of a FrameworkConfig.
Str_3_9  == <<"3", ".", "9">>
Str_3_10 == <<"3", ".", "1", "0">>

\* Every string that is parsed as a version in this model.
VersionStrings ==
    {Str_8_0, Str_8_0_0, Str_9_0_0, Str_10_0_0, Str_10_0_rc1, Str_abc,
     Str_empty, Str_8_0_dev1, Str_8_0_a1, Str_8_0_a2, Str_8_0_b1,
     Str_8_0_rc1, Str_8_0_rc2, Str_8_0_post1}

(***************************************************************************)
(* adk_core/version.py                                                     *)
(***************************************************************************)

Digits == {"0", "1", "2", "3", "4", "5", "6", "7", "8", "9"}

DigitVal(c) ==
    CASE c = "0" -> 0 [] c = "1" -> 1 [] c = "2" -> 2 [] c = "3" -> 3
      [] c = "4" -> 4 [] c = "5" -> 5 [] c = "6" -> 6 [] c = "7" -> 7
      [] c = "8" -> 8 [] c = "9" -> 9

Separators == {".", "-", "_"}

\* Index one past the longest run of digits that starts at i.
RECURSIVE NumEnd(_, _)
NumEnd(s, i) ==
    IF i <= Len(s) /\ s[i] \in Digits THEN NumEnd(s, i + 1) ELSE i

\* Decimal value of the digits s[i .. j-1] (0 for an empty run).
RECURSIVE NumVal(_, _, _)
NumVal(s, i, j) ==
    IF i >= j THEN 0 ELSE NumVal(s, i, j - 1) * 10 + DigitVal(s[j - 1])

\* TRUE iff the literal lit occurs in s at index i.
StartsWith(s, i, lit) ==
    /\ i + Len(lit) - 1 <= Len(s)
    /\ \A k \in 1..Len(lit) : s[i + k - 1] = lit[k]

\* Index after an optional separator at i.
SkipSep(s, i) == IF i <= Len(s) /\ s[i] \in Separators THEN i + 1 ELSE i

\* Release segments N(.N)* from index i: [ok, rel, next].
RECURSIVE ParseRelease(_, _, _)
ParseRelease(s, i, acc) ==
    LET j == NumEnd(s, i) IN
    IF j = i THEN [ok |-> FALSE, rel |-> acc, next |-> i]
    ELSE LET acc2 == Append(acc, NumVal(s, i, j)) IN
         IF j + 1 <= Len(s) /\ s[j] = "." /\ s[j + 1] \in Digits
         THEN ParseRelease(s, j + 1, acc2)
         ELSE [ok |-> TRUE, rel |-> acc2, next |-> j]

\* Pre-release spellings in the order the grammar tries them, with the
\* normalised letter's rank: a < b < rc.
PreTags ==
    << [lit |-> <<"a","l","p","h","a">>, rank |-> 0],
       [lit |-> <<"a">>,                 rank |-> 0],
       [lit |-> <<"b","e","t","a">>,     rank |-> 1],
       [lit |-> <<"b">>,                 rank |-> 1],
       [lit |-> <<"c">>,                 rank |-> 2],
       [lit |-> <<"r","c">>,             rank |-> 2] >>

\* Index in PreTags of the first spelling found at i, 0 if none.
RECURSIVE MatchPreTag(_, _, _)
MatchPreTag(s, i, k) ==
    IF k > Len(PreTags) THEN 0
    ELSE IF StartsWith(s, i, PreTags[k].lit) THEN k
    ELSE MatchPreTag(s, i, k + 1)

\* An optional marker group "sep? tag sep? digits?" at index i:
\* [some, n, next]; next = i when the group is absent.
ParseMarker(s, i, lit) ==
    LET t == SkipSep(s, i) IN
    IF StartsWith(s, t, lit)
    THEN LET d == SkipSep(s, t + Len(lit))
             e == NumEnd(s, d)
         IN [some |-> TRUE, n |-> NumVal(s, d, e), next |-> e]
    ELSE [some |-> FALSE, n |-> 0, next |-> i]

\* Optional pre-release group at index i: [some, rank, n, next].
ParsePre(s, i) ==
    LET t == SkipSep(s, i)
        k == MatchPreTag(s, t, 1)
    IN IF k = 0 THEN [some |-> FALSE, rank |-> 0, n |-> 0, next |-> i]
       ELSE LET m == ParseMarker(s, t, PreTags[k].lit)
            IN [some |-> TRUE, rank |-> PreTags[k].rank, n |-> m.n,
                next |-> m.next]

\* The match of the whole string, from its groups: release r, pre-release
\* p, post-release q and development release d.  The string matches iff the
\* release is present and the last group ends at the end of the string.
MatchAll(s, r, p, q, d) ==
    [valid |-> r.ok /\ d.next = Len(s) + 1,
     release |-> r.rel,
     pre  |-> [some |-> p.some, rank |-> p.rank, n |-> p.n],
     post |-> [some |-> q.some, n |-> q.n],
     dev  |-> [some |-> d.some, n |-> d.n]]

MatchDev(s, r, p, q) ==
    MatchAll(s, r, p, q, ParseMarker(s, q.next, <<"d","e","v">>))

MatchPost(s, r, p) ==
    MatchDev(s, r, p, ParseMarker(s, p.next, <<"p","o","s","t">>))

MatchRelease(s, r) == MatchPost(s, r, ParsePre(s, r.next))

\* packaging.version.Version(version_str) for the grammar
\*   v? N(.N)* (sep? (a|b|c|rc|alpha|beta) sep? N?)? (sep? post sep? N?)?
\*   (sep? dev sep? N?)?
\* without epoch and local label.  valid = FALSE stands for InvalidVersion.
Version(version_str) ==
    MatchRelease(version_str,
                 ParseRelease(version_str,
                              IF StartsWith(version_str, 1, <<"v">>)
                              THEN 2 ELSE 1,
                              << >>))

VersionOf == [s \in VersionStrings |-> Version(s)]

\* parse_version(version_str): Version(version_str), evaluated once for each
\* string of the model.
parse_version(version_str) == VersionOf[version_str]

\* is_version_valid that accepts every string.
is_version_valid_any(version_str) == TRUE

is_version_valid(version_str) == parse_version(version_str).valid

\* Release segments kept as written: "8.0" and "8.0.0" differ.
StripZeros_keep(rel) == rel

\* Release segments without trailing zeros, as the library's sort key does.
RECURSIVE StripZeros(_)
StripZeros(rel) ==
    IF Len(rel) > 0 /\ rel[Len(rel)] = 0
    THEN StripZeros(SubSeq(rel, 1, Len(rel) - 1))
    ELSE rel

\* Python's tuple comparison on sequences of integers: -1, 0 or 1.
RECURSIVE CmpSeq(_, _, _)
CmpSeq(a, b, i) ==
    IF i > Len(a) /\ i > Len(b) THEN 0
    ELSE IF i > Len(a) THEN -1
    ELSE IF i > Len(b) THEN 1
    ELSE IF a[i] < b[i] THEN -1
    ELSE IF a[i] > b[i] THEN 1
    ELSE CmpSeq(a, b, i + 1)

\* The marker part of the library's sort key, as a tuple of integers:
\* pre is -Infinity for a dev release without pre and post, +Infinity for a
\* release without pre; post is -Infinity when absent; dev is +Infinity
\* when absent.
MarkerKey(v) ==
    LET pre  == IF v.pre.some THEN <<v.pre.rank + 1, v.pre.n>>
                ELSE IF ~v.post.some /\ v.dev.some THEN <<0, 0>>
                ELSE <<4, 0>>
        post == IF v.post.some THEN <<1, v.post.n>> ELSE <<0, 0>>
        dev  == IF v.dev.some THEN <<0, v.dev.n>> ELSE <<1, 0>>
    IN pre \o post \o dev

\* Version.__lt__ / __gt__ on two parsed versions, as -1, 0, 1.
CmpParsed(a, b) ==
    LET c == CmpSeq(StripZeros(a.release), StripZeros(b.release), 1) IN
    IF c # 0 THEN c ELSE CmpSeq(MarkerKey(a), MarkerKey(b), 1)

\* compare_versions without its branch for v1 < v2.
CompareParsed_never_less(p1, p2) ==
    IF ~p1.valid \/ ~p2.valid
    THEN [raise |-> TRUE, val |-> 0]
    ELSE [raise |-> FALSE, val |-> IF CmpParsed(p1, p2) > 0 THEN 1 ELSE 0]

\* compare_versions(v1, v2): [raise, val]; raise stands for InvalidVersion
\* leaving parse_version.
CompareParsed(p1, p2) ==
    IF ~p1.valid \/ ~p2.valid
    THEN [raise |-> TRUE, val |-> 0]
    ELSE [raise |-> FALSE, val |-> CmpParsed(p1, p2)]

compare_versions(v1, v2) ==
    CompareParsed(parse_version(v1), parse_version(v2))

\* is_compatible with > for >=: a version no longer satisfies itself.
is_compatible_strict(current, minimum_required) ==
    LET c == compare_versions(current, minimum_required) IN
    [raise |-> c.raise, val |-> c.val > 0]

\* is_compatible(current, minimum_required): [raise, val].
AtLeast(c) == [raise |-> c.raise, val |-> c.val >= 0]

is_compatible(current, minimum_required) ==
    AtLeast(compare_versions(current, minimum_required))

\* An unstable sort: x goes before the elements equal to it.
MustFollow_before_equal(c, reverse) ==
    (reverse /\ c <= 0) \/ (~reverse /\ c >= 0)

\* sorted(..., reverse=reverse) is stable: x goes before the first element
\* that must follow it (the first strictly smaller one when reverse, the first
\* strictly greater one otherwise), hence after every element equal to it.
MustFollow(c, reverse) == (reverse /\ c < 0) \/ (~reverse /\ c > 0)

RECURSIVE InsertPos(_, _, _, _)
InsertPos(sorted, x, reverse, i) ==
    IF i > Len(sorted) THEN i
    ELSE IF MustFollow(CmpParsed(parse_version(sorted[i]), parse_version(x)),
                       reverse)
         THEN i
         ELSE InsertPos(sorted, x, reverse, i + 1)

InsertAt(sorted, x, i) ==
    SubSeq(sorted, 1, i - 1) \o <<x>> \o SubSeq(sorted, i, Len(sorted))

InsertSorted(sorted, x, reverse) ==
    InsertAt(sorted, x, InsertPos(sorted, x, reverse, 1))

RECURSIVE SortFrom(_, _, _, _)
SortFrom(versions, reverse, i, acc) ==
    IF i > Len(versions) THEN acc
    ELSE SortFrom(versions, reverse, i + 1,
                  IF is_version_valid(versions[i])
                  THEN InsertSorted(acc, versions[i], reverse)
                  ELSE acc)

\* sort_versions(versions, reverse): invalid strings are left out, the rest
\* is sorted stably.
sort_versions(versions, reverse) == SortFrom(versions, reverse, 1, << >>)

\* The first kept version instead of the greatest.
MaxFrom_first(valid_versions, i, best) == best

\* max(valid_versions, key=parse_version): the first of the greatest
\* elements, best being the greatest of those before position i.
RECURSIVE MaxFrom(_, _, _)
MaxFrom(valid_versions, i, best) ==
    IF i > Len(valid_versions) THEN best
    ELSE MaxFrom(valid_versions, i + 1,
                 IF CmpParsed(parse_version(valid_versions[i]),
                              parse_version(best)) > 0
                 THEN valid_versions[i]
                 ELSE best)

\* The loop of find_latest_compatible from position i on, then its return:
\* [raise, val]; raise stands for InvalidVersion leaving is_compatible or
\* compare_versions, val is None when no version is kept.
RECURSIVE LatestLoop(_, _, _, _, _)
LatestLoop(available_versions, max_version, min_version, i, valid_versions) ==
    IF i > Len(available_versions)
    THEN [raise |-> FALSE,
          val |-> IF valid_versions = << >> THEN None
                  ELSE MaxFrom(valid_versions, 2, valid_versions[1])]
    ELSE IF ~is_version_valid(available_versions[i])
    THEN LatestLoop(available_versions, max_version, min_version, i + 1,
                    valid_versions)
    ELSE IF Truthy(min_version)
            /\ is_compatible(available_versions[i], min_version).raise
    THEN [raise |-> TRUE, val |-> None]
    ELSE IF Truthy(min_version)
            /\ ~is_compatible(available_versions[i], min_version).val
    THEN LatestLoop(available_versions, max_version, min_version, i + 1,
                    valid_versions)
    ELSE IF Truthy(max_version)
            /\ compare_versions(available_versions[i], max_version).raise
    THEN [raise |-> TRUE, val |-> None]
    ELSE IF Truthy(max_version)
            /\ compare_versions(available_versions[i], max_version).val > 0
    THEN LatestLoop(available_versions, max_version, min_version, i + 1,
                    valid_versions)
    ELSE LatestLoop(available_versions, max_version, min_version, i + 1,
                    Append(valid_versions, available_versions[i]))

find_latest_compatible(available_versions, max_version, min_version) ==
    LatestLoop(available_versions, max_version, min_version, 1, << >>)

(***************************************************************************)
(* adk_core/models.py                                                      *)
(***************************************************************************)

\* x in list
In(x, list) == \E i \in 1..Len(list) : list[i] = x

\* str.replace(".", "")
RECURSIVE RemoveDots(_)
RemoveDots(pv) ==
    IF pv = << >> THEN << >>
    ELSE IF Head(pv) = "." THEN RemoveDots(Tail(pv))
    ELSE <<Head(pv)>> \o RemoveDots(Tail(pv))

\* str.isdigit(): at least one character, and every character a digit.
isdigit(str) == Len(str) >= 1 /\ \A i \in 1..Len(str) : str[i] \in Digits

\* FrameworkConfig without min_length=1 on python_versions.
FrameworkConfig_ok_any_python_versions(c) ==
    /\ is_version_valid(c.version)
    /\ \A i \in 1..Len(c.python_versions) :
          isdigit(RemoveDots(c.python_versions[i]))

\* FrameworkConfig(**fields): the two field validators and min_length=1.
FrameworkConfig_ok(c) ==
    /\ is_version_valid(c.version)
    /\ Len(c.python_versions) >= 1
    /\ \A i \in 1..Len(c.python_versions) :
          isdigit(RemoveDots(c.python_versions[i]))

\* CANNVersionEntry(**fields): the field validators and min_length=1;
\* frameworks is a dict (a sequence of [name, config] in insertion order, no
\* name twice) whose values are FrameworkConfig.
CANNVersionEntry_ok(e) ==
    /\ is_version_valid(e.min_driver_version)
    /\ Len(e.supported_os) >= 1
    /\ Len(e.supported_npu) >= 1
    /\ Len(e.supported_arch) >= 1
    /\ \A i, j \in 1..Len(e.frameworks) :
          e.frameworks[i].name = e.frameworks[j].name => i = j
    /\ \A i \in 1..Len(e.frameworks) :
          FrameworkConfig_ok(e.frameworks[i].config)

\* CompatibilityMatrix.cann_versions whose entries are not validated.
CompatibilityMatrix_ok_entries_unchecked(m) ==
    /\ Len(m) >= 1
    /\ \A i, j \in 1..Len(m) : m[i].version = m[j].version => i = j

\* CompatibilityMatrix.cann_versions is a dict: a sequence of
\* [version, entry] in insertion order, no key twice, min_length=1.
CompatibilityMatrix_ok(m) ==
    /\ Len(m) >= 1
    /\ \A i, j \in 1..Len(m) : m[i].version = m[j].version => i = j
    /\ \A i \in 1..Len(m) : CANNVersionEntry_ok(m[i].entry)

\* dict.keys()
Keys(m) == [i \in 1..Len(m) |-> m[i].version]

HasKey(m, version) == \E i \in 1..Len(m) : m[i].version = version

\* CompatibilityMatrix.get_cann_version(version), for a key that is present.
get_cann_version(m, version) ==
    m[CHOOSE i \in 1..Len(m) : m[i].version = version].entry

(***************************************************************************)
(* adk_core/exceptions.py                                                  *)
(***************************************************************************)

InvalidVersion == [kind |-> "raise", exc |-> "InvalidVersion"]

TypeError == [kind |-> "raise", exc |-> "TypeError"]

\* ConfigurationError(message, suggestions=...): ADKError keeps
\* `suggestions or []`.
ConfigurationError(message, suggestions) ==
    [kind |-> "raise", exc |-> "ConfigurationError", message |-> message,
     suggestions |-> suggestions]

\* Exceptions of the libraries and of the interpreter.
ValidationError == [kind |-> "raise", exc |-> "ValidationError"]

YAMLError == [kind |-> "raise", exc |-> "YAMLError"]

FileNotFoundError == [kind |-> "raise", exc |-> "FileNotFoundError"]

KeyError == [kind |-> "raise", exc |-> "KeyError"]

\* VersionNotFoundError(version_type, version, available_versions)
VersionNotFoundError(version_type, version, available_versions) ==
    [kind |-> "raise", exc |-> "VersionNotFoundError",
     version_type |-> version_type, version |-> version,
     available_versions |-> available_versions,
     message |-> [fmt |-> "{} version '{}' not found in compatibility matrix.",
                  version_type |-> version_type, version |-> version],
     suggestions |-> IF available_versions # << >>
                     THEN <<[fmt |-> "Available {} versions: {}",
                             version_type |-> version_type,
                             versions |-> available_versions]>>
                     ELSE << >>]

\* DriverIncompatibleError(driver_version, cann_version, **kw): __init__
\* takes the parameter min_required and no other keyword; a call that does
\* not bind it, or passes another keyword, raises TypeError.
DriverIncompatibleError(driver_version, cann_version, kw) ==
    IF DOMAIN kw # {"min_required"} THEN TypeError
    ELSE [kind |-> "raise", exc |-> "DriverIncompatibleError",
          driver_version |-> driver_version, cann_version |-> cann_version,
          min_required |-> kw.min_required,
          message |-> [fmt |-> "Driver version '{}' is incompatible with CANN {}. Minimum required driver version is '{}'.",
                       driver_version |-> driver_version,
                       cann_version |-> cann_version,
                       min_required |-> kw.min_required],
          suggestions |-> <<[fmt |-> "Upgrade your driver to version {} or later",
                             min_required |-> kw.min_required],
                            [fmt |-> "Check the official driver upgrade guide"]>>]

\* OSNotSupportedError(os_name, cann_version, supported_os)
OSNotSupportedError(os_name, cann_version, supported_os) ==
    [kind |-> "raise", exc |-> "OSNotSupportedError",
     os_name |-> os_name, cann_version |-> cann_version,
     supported_os |-> supported_os,
     message |-> [fmt |-> "OS '{}' is not supported for CANN {}.",
                  os_name |-> os_name, cann_version |-> cann_version],
     suggestions |-> <<[fmt |-> "Supported operating systems: {}",
                        supported_os |-> supported_os]>>]

\* NPUNotSupportedError(npu_type, cann_version, supported_npu)
NPUNotSupportedError(npu_type, cann_version, supported_npu) ==
    [kind |-> "raise", exc |-> "NPUNotSupportedError",
     npu_type |-> npu_type, cann_version |-> cann_version,
     supported_npu |-> supported_npu,
     message |-> [fmt |-> "NPU type '{}' is not supported for CANN {}.",
                  npu_type |-> npu_type, cann_version |-> cann_version],
     suggestions |-> <<[fmt |-> "Supported NPU types: {}",
                        supported_npu |-> supported_npu]>>]

\* FrameworkNotFoundError(framework, cann_version, available_frameworks)
FrameworkNotFoundError(framework, cann_version, available_frameworks) ==
    [kind |-> "raise", exc |-> "FrameworkNotFoundError",
     framework |-> framework, cann_version |-> cann_version,
     available_frameworks |-> available_frameworks,
     message |-> [fmt |-> "Framework '{}' is not available for CANN {}.",
                  framework |-> framework, cann_version |-> cann_version],
     suggestions |-> IF available_frameworks # << >>
                     THEN <<[fmt |-> "Available frameworks: {}",
                             frameworks |-> available_frameworks]>>
                     ELSE << >>]

(***************************************************************************)
(* adk_core/matrix.py: CompatibilityResolver over the matrix m             *)
(***************************************************************************)

Return(value) == [kind |-> "return", value |-> value]

\* The keys the loop of list_cann_versions appends, in dict order.
RECURSIVE ListLoop(_, _, _, _)
ListLoop(m, include_deprecated, i, versions) ==
    IF i > Len(m) THEN versions
    ELSE ListLoop(m, include_deprecated, i + 1,
                  IF include_deprecated \/ ~m[i].entry.deprecated
                  THEN Append(versions, m[i].version)
                  ELSE versions)

\* list_cann_versions without reverse=True: oldest first.
list_cann_versions_ascending(m, include_deprecated) ==
    sort_versions(ListLoop(m, include_deprecated, 1, << >>), FALSE)

list_cann_versions(m, include_deprecated) ==
    sort_versions(ListLoop(m, include_deprecated, 1, << >>), TRUE)

\* The loop of find_compatible_cann from entry i on; an InvalidVersion that
\* leaves is_compatible or compare_versions leaves the method.
RECURSIVE FindLoop(_, _, _, _, _, _)
FindLoop(m, driver_version, os_name, npu_type, i, compatible) ==
    IF i > Len(m) THEN Return(sort_versions(compatible, TRUE))
    ELSE
      LET entry == m[i].entry
          skip  == FindLoop(m, driver_version, os_name, npu_type, i + 1,
                            compatible)
          keep  == FindLoop(m, driver_version, os_name, npu_type, i + 1,
                            Append(compatible, m[i].version))
          ge    == is_compatible(driver_version, entry.min_driver_version)
          le    == compare_versions(driver_version, entry.max_driver_version)
      IN IF entry.deprecated THEN skip
         ELSE IF ge.raise THEN InvalidVersion
         ELSE IF ~ge.val THEN skip
         ELSE IF Truthy(entry.max_driver_version) /\ le.raise
              THEN InvalidVersion
         ELSE IF Truthy(entry.max_driver_version) /\ le.val > 0 THEN skip
         ELSE IF TruthyStr(os_name) /\ ~In(os_name, entry.supported_os)
              THEN skip
         ELSE IF TruthyStr(npu_type) /\ ~In(npu_type, entry.supported_npu)
              THEN skip
         ELSE keep

find_compatible_cann(m, driver_version, os_name, npu_type) ==
    FindLoop(m, driver_version, os_name, npu_type, 1, << >>)

\* version_errors without the test of the NPU type.
VersionErrors_no_npu(entry, env) ==
    LET ge == is_compatible(env.driver_version, entry.min_driver_version)
        le == compare_versions(env.driver_version, entry.max_driver_version)
    IN (IF ~ge.val THEN <<"Driver {} < required {}">> ELSE << >>)
       \o (IF Truthy(entry.max_driver_version) /\ le.val > 0
           THEN <<"Driver {} > max supported {}">> ELSE << >>)
       \o (IF ~In(env.os_name, entry.supported_os)
           THEN <<"OS {} not supported">> ELSE << >>)
       \o (IF ~In(env.arch, entry.supported_arch)
           THEN <<"Architecture {} not supported">> ELSE << >>)

\* version_errors of one entry in validate_environment (no InvalidVersion).
VersionErrors(entry, env) ==
    LET ge == is_compatible(env.driver_version, entry.min_driver_version)
        le == compare_versions(env.driver_version, entry.max_driver_version)
    IN (IF ~ge.val THEN <<"Driver {} < required {}">> ELSE << >>)
       \o (IF Truthy(entry.max_driver_version) /\ le.val > 0
           THEN <<"Driver {} > max supported {}">> ELSE << >>)
       \o (IF ~In(env.os_name, entry.supported_os)
           THEN <<"OS {} not supported">> ELSE << >>)
       \o (IF ~In(env.npu_type, entry.supported_npu)
           THEN <<"NPU {} not supported">> ELSE << >>)
       \o (IF ~In(env.arch, entry.supported_arch)
           THEN <<"Architecture {} not supported">> ELSE << >>)

\* TRUE iff evaluating version_errors of the entry raises InvalidVersion.
VersionErrorsRaise(entry, env) ==
    \/ is_compatible(env.driver_version, entry.min_driver_version).raise
    \/ /\ Truthy(entry.max_driver_version)
       /\ compare_versions(env.driver_version,
                           entry.max_driver_version).raise

\* ValidationResult with valid taken from warnings instead of errors.
ValidationResult_validFromWarnings(env, warnings, compatible_versions) ==
    LET errors == IF compatible_versions = << >>
                  THEN <<[fmt |-> "No compatible CANN versions found for this environment"],
                         [fmt |-> "Driver: {}, OS: {}, NPU: {}",
                          driver_version |-> env.driver_version,
                          os_name |-> env.os_name,
                          npu_type |-> env.npu_type]>>
                  ELSE << >>
    IN [kind |-> "return",
        valid |-> Len(warnings) = 0,
        compatible_cann_versions |-> sort_versions(compatible_versions, TRUE),
        errors |-> errors,
        warnings |-> warnings]

\* The ValidationResult built after the loop.
ValidationResult(env, warnings, compatible_versions) ==
    LET errors == IF compatible_versions = << >>
                  THEN <<[fmt |-> "No compatible CANN versions found for this environment"],
                         [fmt |-> "Driver: {}, OS: {}, NPU: {}",
                          driver_version |-> env.driver_version,
                          os_name |-> env.os_name,
                          npu_type |-> env.npu_type]>>
                  ELSE << >>
    IN [kind |-> "return",
        valid |-> Len(errors) = 0,
        compatible_cann_versions |-> sort_versions(compatible_versions, TRUE),
        errors |-> errors,
        warnings |-> warnings]

\* The loop of validate_environment from entry i on.
RECURSIVE ValidateLoop(_, _, _, _, _)
ValidateLoop(m, env, i, warnings, compatible_versions) ==
    IF i > Len(m) THEN ValidationResult(env, warnings, compatible_versions)
    ELSE
      LET entry == m[i].entry IN
      IF VersionErrorsRaise(entry, env) THEN InvalidVersion
      ELSE IF VersionErrors(entry, env) # << >>
           THEN ValidateLoop(m, env, i + 1, warnings, compatible_versions)
      ELSE ValidateLoop(m, env, i + 1,
                        IF entry.deprecated
                        THEN Append(warnings,
                                    [fmt |-> "CANN {} is deprecated",
                                     version |-> m[i].version])
                        ELSE warnings,
                        Append(compatible_versions, m[i].version))

validate_environment(m, env) == ValidateLoop(m, env, 1, << >>, << >>)

\* get_cann_entry(cann_version): the entry, or VersionNotFoundError.
get_cann_entry(m, cann_version) ==
    IF ~HasKey(m, cann_version)
    THEN VersionNotFoundError(<<"C","A","N","N">>, cann_version,
                              list_cann_versions(m, TRUE))
    ELSE Return(get_cann_version(m, cann_version))

check_driver_compatibility(m, driver_version, cann_version) ==
    LET got == get_cann_entry(m, cann_version) IN
    IF got.kind = "raise" THEN got
    ELSE
      LET entry == got.value
          ge == is_compatible(driver_version, entry.min_driver_version)
          le == compare_versions(driver_version, entry.max_driver_version)
      IN IF ge.raise THEN InvalidVersion
         ELSE IF ~ge.val
              THEN DriverIncompatibleError(driver_version, cann_version,
                       [min_required |-> entry.min_driver_version])
         ELSE IF Truthy(entry.max_driver_version) /\ le.raise
              THEN InvalidVersion
         ELSE IF Truthy(entry.max_driver_version) /\ le.val > 0
              THEN DriverIncompatibleError(driver_version, cann_version,
                       [max_allowed |-> entry.max_driver_version])
         ELSE Return(None)

\* check_os_compatibility that looks the value up in supported_npu.
check_os_compatibility_in_npu(m, os_name, cann_version) ==
    LET got == get_cann_entry(m, cann_version) IN
    IF got.kind = "raise" THEN got
    ELSE IF ~In(os_name, got.value.supported_npu)
         THEN OSNotSupportedError(os_name, cann_version,
                                  got.value.supported_os)
    ELSE Return(None)

check_os_compatibility(m, os_name, cann_version) ==
    LET got == get_cann_entry(m, cann_version) IN
    IF got.kind = "raise" THEN got
    ELSE IF ~In(os_name, got.value.supported_os)
         THEN OSNotSupportedError(os_name, cann_version,
                                  got.value.supported_os)
    ELSE Return(None)

check_npu_compatibility(m, npu_type, cann_version) ==
    LET got == get_cann_entry(m, cann_version) IN
    IF got.kind = "raise" THEN got
    ELSE IF ~In(npu_type, got.value.supported_npu)
         THEN NPUNotSupportedError(npu_type, cann_version,
                                   got.value.supported_npu)
    ELSE Return(None)

\* get_recommended_cann that takes compatible[-1], the oldest.
get_recommended_cann_last(m, driver_version, os_name, npu_type) ==
    LET compatible == find_compatible_cann(m, driver_version, os_name,
                                           npu_type)
    IN IF compatible.kind = "raise" THEN compatible
       ELSE IF compatible.value # << >>
            THEN Return(compatible.value[Len(compatible.value)])
       ELSE Return(None)

\* get_recommended_cann: compatible[0] if compatible else None.
get_recommended_cann(m, driver_version, os_name, npu_type) ==
    LET compatible == find_compatible_cann(m, driver_version, os_name,
                                           npu_type)
    IN IF compatible.kind = "raise" THEN compatible
       ELSE IF compatible.value # << >> THEN Return(compatible.value[1])
       ELSE Return(None)

\* QueryResult(success=..., data=..., error=..., suggestions=...)
QueryResult(success, data, error, suggestions) ==
    [kind |-> "return", success |-> success, data |-> data, error |-> error,
     suggestions |-> suggestions]

\* list(entry.frameworks.keys())
FrameworkNames(entry) ==
    [i \in 1..Len(entry.frameworks) |-> entry.frameworks[i].name]

\* entry.frameworks.get(framework): the config, or None.
FrameworksGet(entry, framework) ==
    IF \E i \in 1..Len(entry.frameworks) :
          entry.frameworks[i].name = framework
    THEN entry.frameworks[CHOOSE i \in 1..Len(entry.frameworks) :
                            entry.frameworks[i].name = framework].config
    ELSE NoneRec

\* get_cann_requirements whose miss lists the deprecated versions too.
VersionMissResult_include_deprecated(m, cann_version) ==
    QueryResult(FALSE, NoneRec,
                [fmt |-> "CANN version '{}' not found",
                 cann_version |-> cann_version],
                <<[fmt |-> "Available versions: {}",
                   versions |-> list_cann_versions(m, TRUE)]>>)

\* The QueryResult of a cann_version that is no key of the matrix; the
\* suggestion joins list_cann_versions() with its default flag.
VersionMissResult(m, cann_version) ==
    QueryResult(FALSE, NoneRec,
                [fmt |-> "CANN version '{}' not found",
                 cann_version |-> cann_version],
                <<[fmt |-> "Available versions: {}",
                   versions |-> list_cann_versions(m, FALSE)]>>)

RequirementsOf(cann_version, entry) ==
    QueryResult(TRUE,
                [cann_version |-> cann_version,
                 min_driver_version |-> entry.min_driver_version,
                 max_driver_version |-> entry.max_driver_version,
                 supported_os |-> entry.supported_os,
                 supported_npu |-> entry.supported_npu,
                 supported_arch |-> entry.supported_arch,
                 frameworks |-> FrameworkNames(entry),
                 deprecated |-> entry.deprecated],
                NoneRec, << >>)

get_cann_requirements(m, cann_version) ==
    IF ~HasKey(m, cann_version) THEN VersionMissResult(m, cann_version)
    ELSE RequirementsOf(cann_version, get_cann_version(m, cann_version))

\* get_framework_config(cann_version, framework): the config, or None.
get_framework_config(m, cann_version, framework) ==
    IF ~HasKey(m, cann_version) THEN Return(NoneRec)
    ELSE Return(FrameworksGet(get_cann_version(m, cann_version), framework))

\* The two returns of find_framework_config once the entry is found.
FrameworkResult(cann_version, framework, entry, config) ==
    IF config = NoneRec
    THEN QueryResult(FALSE, NoneRec,
                     [fmt |-> "Framework '{}' not available for CANN {}",
                      framework |-> framework,
                      cann_version |-> cann_version],
                     <<[fmt |-> "Available frameworks: {}",
                        frameworks |-> FrameworkNames(entry)]>>)
    ELSE QueryResult(TRUE,
                     [framework |-> framework,
                      version |-> config.version,
                      torch_npu_version |-> config.torch_npu_version,
                      python_versions |-> config.python_versions,
                      whl_url |-> config.whl_url,
                      install_command |-> config.install_command],
                     NoneRec, << >>)

find_framework_config(m, cann_version, framework) ==
    IF ~HasKey(m, cann_version) THEN VersionMissResult(m, cann_version)
    ELSE FrameworkResult(cann_version, framework,
                         get_cann_version(m, cann_version),
                         FrameworksGet(get_cann_version(m, cann_version),
                                       framework))

\* get_framework that reports a missing framework as a missing version.
FrameworkOf_version_error(got, cann_version, framework) ==
    IF got.kind = "raise" THEN got
    ELSE IF FrameworksGet(got.value, framework) = NoneRec
         THEN VersionNotFoundError(<<"C","A","N","N">>, cann_version, << >>)
    ELSE Return(FrameworksGet(got.value, framework))

\* The rest of get_framework once get_cann_entry has returned or raised.
FrameworkOf(got, cann_version, framework) ==
    IF got.kind = "raise" THEN got
    ELSE IF FrameworksGet(got.value, framework) = NoneRec
         THEN FrameworkNotFoundError(framework, cann_version,
                                     FrameworkNames(got.value))
    ELSE Return(FrameworksGet(got.value, framework))

get_framework(m, cann_version, framework) ==
    FrameworkOf(get_cann_entry(m, cann_version), cann_version, framework)

(***************************************************************************)
(* Bounded inputs                                                          *)
(***************************************************************************)

\* Largest number of entries of a matrix.
MaxEntries == 2

\* Keys of cann_versions: two spellings of one version, a later version and
\* a key that is no version (keys are not validated by the model classes).
CannKeys == {Str_8_0, Str_8_0_0, Str_10_0_0, Str_abc}

\* cann_version arguments: every key and a string that is never a key.
CannVersionInputs == CannKeys \cup {Str_9_0_0}

DriverInputs == {Str_9_0_0, Str_10_0_0, Str_abc}

OsInputs == {"ubuntu22.04", "kylinV10"}

NpuInputs == {"910B", "310P"}

ArchInputs == {"x86_64", "aarch64"}

\* os_name and npu_type of an EnvironmentInfo: any str, the empty one
\* included.
EnvOsInputs == OsInputs \cup {""}

EnvNpuInputs == NpuInputs \cup {""}

\* Optional filters of find_compatible_cann / get_recommended_cann.
OsFilters == OsInputs \cup {NoneStr, ""}

NpuFilters == NpuInputs \cup {NoneStr, ""}

FrameworkInputs == {"pytorch", "mindspore"}

Framework(version, torch_npu_version, python_versions) ==
    [version |-> version, torch_npu_version |-> torch_npu_version,
     python_versions |-> python_versions, whl_url |-> None,
     install_command |-> None]

Pytorch == Framework(Str_8_0_0, Str_8_0, <<Str_3_10>>)

Mindspore == Framework(Str_10_0_rc1, None, <<Str_3_9, Str_3_10>>)

Entry(min, max, os, npu, arch, frameworks, deprecated) ==
    [min_driver_version |-> min, max_driver_version |-> max,
     supported_os |-> os, supported_npu |-> npu, supported_arch |-> arch,
     frameworks |-> frameworks, deprecated |-> deprecated]

\* The entries a matrix is built from: no maximum, a pre-release minimum,
\* a deprecated entry with max = min, a maximum of "10.0.0" (above "9.0.0"
\* as a version, below it as a string), a maximum that is no version and an
\* empty maximum; with one framework, two frameworks or none.
EntryUniverse ==
    { Entry(Str_9_0_0, None, <<"ubuntu22.04">>, <<"910B">>, <<"x86_64">>,
            <<[name |-> "pytorch", config |-> Pytorch]>>, FALSE),
      Entry(Str_10_0_rc1, Str_10_0_0, <<"ubuntu22.04", "kylinV10">>,
            <<"910B", "310P">>, <<"x86_64", "aarch64">>,
            <<[name |-> "mindspore", config |-> Mindspore],
              [name |-> "pytorch", config |-> Pytorch]>>, FALSE),
      Entry(Str_9_0_0, Str_9_0_0, <<"ubuntu22.04">>, <<"910B">>,
            <<"x86_64">>, <<[name |-> "mindspore", config |-> Mindspore]>>,
            TRUE),
      Entry(Str_9_0_0, Str_10_0_0, <<"kylinV10">>, <<"310P">>,
            <<"aarch64">>, << >>, FALSE),
      Entry(Str_9_0_0, Str_abc, <<"ubuntu22.04">>, <<"910B">>,
            <<"x86_64">>, << >>, FALSE),
      Entry(Str_9_0_0, Str_empty, <<"ubuntu22.04">>, <<"910B">>,
            <<"x86_64">>, << >>, FALSE) }

\* Every dict of 1..MaxEntries entries over the keys, in every insertion
\* order, that CompatibilityMatrix(**data) accepts.
Matrices ==
    { m \in UNION { [1..n -> [version : CannKeys, entry : EntryUniverse]] :
                    n \in 1..MaxEntries } :
        CompatibilityMatrix_ok(m) }

(***************************************************************************)
(* What yaml.safe_load gives: None for an empty document, a list, or a     *)
(* dict; a dict is a record of the keys that are present.                  *)
(***************************************************************************)

PyNone == [type |-> "NoneType"]

PyList(items) == [type |-> "list", items |-> items]

PyDict(items) == [type |-> "dict", items |-> items]

\* CompatibilityMatrix(**data): ** takes a mapping and nothing else; the
\* three fields are required, version is validated, cann_versions has
\* min_length=1 and every entry is validated.  The value is the matrix.
CompatibilityMatrix(data) ==
    IF data.type # "dict" THEN TypeError
    ELSE IF ~({"version", "last_updated", "cann_versions"}
                \subseteq DOMAIN data.items)
         THEN ValidationError
    ELSE IF ~is_version_valid(data.items.version) THEN ValidationError
    ELSE IF ~CompatibilityMatrix_ok(data.items.cann_versions)
         THEN ValidationError
    ELSE Return([version |-> data.items.version,
                 last_updated |-> data.items.last_updated,
                 cann_versions |-> data.items.cann_versions])

(***************************************************************************)
(* adk_core/matrix.py: from_yaml, _yaml_cache and clear_yaml_cache         *)
(***************************************************************************)

\* The sources a file holds.  yaml.safe_load is a function of the source:
\* it raises YAMLError, or gives None, a list or a dict.
Sources ==
    {"unparseable", "empty", "list", "one_entry", "two_entries",
     "bad_schema_version", "no_cann_versions", "empty_cann_versions",
     "bad_min_driver", "no_supported_os", "no_supported_npu",
     "no_supported_arch", "bad_framework_version", "no_python_versions"}

GoodEntry ==
    Entry(Str_9_0_0, None, <<"ubuntu22.04">>, <<"910B">>, <<"x86_64">>,
          <<[name |-> "pytorch", config |-> Pytorch]>>, FALSE)

DeprecatedEntry ==
    Entry(Str_9_0_0, Str_9_0_0, <<"ubuntu22.04">>, <<"910B">>, <<"x86_64">>,
          << >>, TRUE)

\* The document of a source that is a mapping with all three fields: a good
\* entry under "8.0.0", then the given entry under "10.0.0".
Document(version, second) ==
    PyDict([version |-> version, last_updated |-> "2025-01-01",
            cann_versions |-> <<[version |-> Str_8_0_0, entry |-> GoodEntry],
                                [version |-> Str_10_0_0, entry |-> second]>>])

safe_load(source) ==
    CASE source = "unparseable" -> YAMLError
      [] source = "empty" -> Return(PyNone)
      [] source = "list" -> Return(PyList(<<"8.0.0">>))
      [] source = "one_entry" ->
           Return(PyDict([version |-> Str_8_0, last_updated |-> "2025-01-01",
                          cann_versions |->
                            <<[version |-> Str_8_0_0,
                               entry |-> GoodEntry]>>]))
      [] source = "two_entries" ->
           Return(Document(Str_8_0, DeprecatedEntry))
      [] source = "bad_schema_version" ->
           Return(Document(Str_abc, DeprecatedEntry))
      [] source = "no_cann_versions" ->
           Return(PyDict([version |-> Str_8_0,
                          last_updated |-> "2025-01-01"]))
      [] source = "empty_cann_versions" ->
           Return(PyDict([version |-> Str_8_0, last_updated |-> "2025-01-01",
                          cann_versions |-> << >>]))
      [] source = "bad_min_driver" ->
           Return(Document(Str_8_0,
                    [GoodEntry EXCEPT !.min_driver_version = Str_abc]))
      [] source = "no_supported_os" ->
           Return(Document(Str_8_0,
                    [GoodEntry EXCEPT !.supported_os = << >>]))
      [] source = "no_supported_npu" ->
           Return(Document(Str_8_0,
                    [GoodEntry EXCEPT !.supported_npu = << >>]))
      [] source = "no_supported_arch" ->
           Return(Document(Str_8_0,
                    [GoodEntry EXCEPT !.supported_arch = << >>]))
      [] source = "bad_framework_version" ->
           Return(Document(Str_8_0,
                    [GoodEntry EXCEPT !.frameworks =
                       <<[name |-> "pytorch",
                          config |-> Framework(Str_abc, None,
                                               <<Str_3_10>>)]>>]))
      [] source = "no_python_versions" ->
           Return(Document(Str_8_0,
                    [GoodEntry EXCEPT !.frameworks =
                       <<[name |-> "pytorch",
                          config |-> Framework(Str_8_0_0, None, << >>)]>>]))

\* Largest number of from_yaml calls in a behaviour.
MaxLoads == 3

\* st_mtime values of the file: the one it starts with and a later one.
Mtimes == {1, 2}

Threads == {"t1", "t2"}

\* str(Path(path).resolve()) of the one path that is loaded.
ResolvedPath == "/project/compatibility.yaml"

\* The local data of from_yaml before safe_load has given it a value.
Unbound == [type |-> "unbound"]

\* A thread that is not inside from_yaml.
IdleFrame ==
    [pc |-> "idle", mtime |-> 0, data |-> Unbound, matrix |-> NoneRec,
     result |-> [kind |-> "none"], prior |-> << >>, cleared |-> FALSE]

\* cache_key = (str(path), mtime)
cache_key(path, mtime) == <<path, mtime>>

\* _yaml_cache[(path, 0)] = matrix: a key that leaves the modification time
\* out.
CacheInsert_other_key(cache, key, m) ==
    [k \in DOMAIN cache \cup {<<key[1], 0>>} |->
        IF k = <<key[1], 0>> THEN m ELSE cache[k]]

\* No store: the cache is left as it was.
CacheInsert_dropped(cache, key, m) == cache

\* _yaml_cache[cache_key] = matrix
CacheInsert(cache, key, m) ==
    [k \in DOMAIN cache \cup {key} |-> IF k = key THEN m ELSE cache[k]]

\* The record of the first matrix object stored under each key since the
\* cache was last cleared, after a store of m under key.
FirstBuilt(history, key, m) ==
    IF key \in DOMAIN history
    THEN history
    ELSE [k \in DOMAIN history \cup {key} |->
            IF k = key THEN m ELSE history[k]]

\* cls(matrix): the resolver keeps the matrix object it is given.
Resolver(m) == [kind |-> "return", resolver |-> [_matrix |-> m]]

\* The frame of a from_yaml call that has returned or raised; it stays until
\* the thread's next call.
Done(frame, outcome) == [frame EXCEPT !.pc = "done", !.result = outcome]

\* The message and the suggestion of from_yaml for a path that does not
\* exist.
FileNotFound ==
    ConfigurationError(
        [fmt |-> "Configuration file not found: {}", path |-> ResolvedPath],
        <<[fmt |-> "Ensure {} exists in the project root",
           path |-> ResolvedPath]>>)

\* from_yaml(path) without the test of path.exists().
FromYaml_no_exists_check(t) ==
    /\ frames[t].pc \in {"idle", "done"}
    /\ calls < MaxLoads
    /\ calls' = calls + 1
    /\ frames' = [frames EXCEPT ![t] =
          [IdleFrame EXCEPT !.pc = "stat", !.prior = built]]
    /\ UNCHANGED <<matrix, call, result, file, yaml_cache, allocated, built>>

\* from_yaml(path) is called by a thread that is not inside it:
\* path.exists().
FromYaml(t) ==
    /\ frames[t].pc \in {"idle", "done"}
    /\ calls < MaxLoads
    /\ calls' = calls + 1
    /\ frames' = [frames EXCEPT ![t] =
          IF ~file.exists
          THEN Done([IdleFrame EXCEPT !.prior = built], FileNotFound)
          ELSE [IdleFrame EXCEPT !.pc = "stat", !.prior = built]]
    /\ UNCHANGED <<matrix, call, result, file, yaml_cache, allocated, built>>

\* mtime = path.stat().st_mtime
Stat(t) ==
    /\ frames[t].pc = "stat"
    /\ frames' = [frames EXCEPT ![t] =
          IF ~file.exists THEN Done(@, FileNotFoundError)
          ELSE [@ EXCEPT !.pc = "lookup", !.mtime = file.mtime]]
    /\ UNCHANGED <<matrix, call, result, file, yaml_cache, allocated, built,
                   calls>>

\* if cache_key in _yaml_cache
Lookup(t) ==
    /\ frames[t].pc = "lookup"
    /\ frames' = [frames EXCEPT ![t].pc =
          IF cache_key(ResolvedPath, frames[t].mtime) \in DOMAIN yaml_cache
          THEN "hit" ELSE "open"]
    /\ UNCHANGED <<matrix, call, result, file, yaml_cache, allocated, built,
                   calls>>

\* return cls(_yaml_cache[cache_key])
Hit(t) ==
    /\ frames[t].pc = "hit"
    /\ frames' = [frames EXCEPT ![t] =
          IF cache_key(ResolvedPath, frames[t].mtime) \in DOMAIN yaml_cache
          THEN Done(@, Resolver(yaml_cache[cache_key(ResolvedPath,
                                                     frames[t].mtime)]))
          ELSE Done(@, KeyError)]
    /\ UNCHANGED <<matrix, call, result, file, yaml_cache, allocated, built,
                   calls>>

\* with open(path) as f: data = yaml.safe_load(f), YAMLError caught.
Open(t) ==
    /\ frames[t].pc = "open"
    /\ frames' = [frames EXCEPT ![t] =
          IF ~file.exists THEN Done(@, FileNotFoundError)
          ELSE IF safe_load(file.source).kind = "raise"
               THEN Done(@, ConfigurationError(
                        [fmt |-> "Invalid YAML format in {}: {}",
                         path |-> ResolvedPath],
                        <<[fmt |-> "Check YAML syntax"],
                          [fmt |-> "Validate file encoding is UTF-8"]>>))
          ELSE [@ EXCEPT !.pc = "construct",
                         !.data = safe_load(file.source).value]]
    /\ UNCHANGED <<matrix, call, result, file, yaml_cache, allocated, built,
                   calls>>

\* matrix = CompatibilityMatrix(**data), ValidationError caught.
Construct(t) ==
    /\ frames[t].pc = "construct"
    /\ frames' = [frames EXCEPT ![t] =
          IF CompatibilityMatrix(frames[t].data) = ValidationError
          THEN Done(@, ConfigurationError(
                        [fmt |-> "Invalid configuration schema: {}"],
                        <<[fmt |-> "Check field types and required fields"]>>))
          ELSE IF CompatibilityMatrix(frames[t].data).kind = "raise"
               THEN Done(@, CompatibilityMatrix(frames[t].data))
          ELSE [@ EXCEPT !.pc = "insert",
                         !.matrix =
                            [id |-> allocated + 1,
                             value |->
                               CompatibilityMatrix(frames[t].data).value]]]
    /\ allocated' = IF CompatibilityMatrix(frames[t].data).kind = "return"
                    THEN allocated + 1 ELSE allocated
    /\ UNCHANGED <<matrix, call, result, file, yaml_cache, built, calls>>

\* _yaml_cache[cache_key] = matrix; return cls(matrix)
Insert(t) ==
    /\ frames[t].pc = "insert"
    /\ yaml_cache' = CacheInsert(yaml_cache,
                                 cache_key(ResolvedPath, frames[t].mtime),
                                 frames[t].matrix)
    /\ built' = FirstBuilt(built, cache_key(ResolvedPath, frames[t].mtime),
                            frames[t].matrix)
    /\ frames' = [frames EXCEPT ![t] = Done(@, Resolver(frames[t].matrix))]
    /\ UNCHANGED <<matrix, call, result, file, allocated, calls>>

\* clear_yaml_cache() that leaves the dict as it is.
ClearYamlCache_keeps ==
    /\ yaml_cache # << >>
    /\ yaml_cache' = yaml_cache
    /\ built' = << >>
    /\ frames' = [t \in Threads |->
                    IF frames[t].pc \in {"idle", "done"} THEN frames[t]
                    ELSE [frames[t] EXCEPT !.cleared = TRUE]]
    /\ UNCHANGED <<matrix, call, result, file, allocated, calls>>

\* clear_yaml_cache(): _yaml_cache.clear()
ClearYamlCache ==
    /\ yaml_cache # << >>
    /\ yaml_cache' = << >>
    /\ built' = << >>
    /\ frames' = [t \in Threads |->
                    IF frames[t].pc \in {"idle", "done"} THEN frames[t]
                    ELSE [frames[t] EXCEPT !.cleared = TRUE]]
    /\ UNCHANGED <<matrix, call, result, file, allocated, calls>>

\* What a file that exists is overwritten with: a source that loads, another
\* that loads to a different matrix, and one that does not load.
WrittenSources == {"one_entry", "two_entries", "unparseable"}

\* The file is written: new content, later modification time.
WriteFile ==
    /\ \E source \in WrittenSources, mtime \in Mtimes :
          /\ mtime > file.mtime
          /\ file' = [exists |-> TRUE, mtime |-> mtime, source |-> source]
    /\ UNCHANGED <<matrix, call, result, yaml_cache, frames, allocated,
                   built, calls>>

\* The file is removed.
RemoveFile ==
    /\ file.exists
    /\ file' = [file EXCEPT !.exists = FALSE, !.source = "empty"]
    /\ UNCHANGED <<matrix, call, result, yaml_cache, frames, allocated,
                   built, calls>>

\* No file load has happened: the state of the loader in which a resolver
\* is made from a matrix directly.
LoaderInit ==
    /\ yaml_cache = << >>
    /\ frames = [t \in Threads |-> IdleFrame]
    /\ allocated = 0
    /\ built = << >>
    /\ calls = 0

LoadInit ==
    /\ matrix = << >>
    /\ call = [op |-> "none"]
    /\ result = [kind |-> "none"]
    /\ file \in [exists : {TRUE}, mtime : {1}, source : Sources]
              \cup {[exists |-> FALSE, mtime |-> 1, source |-> "empty"]}
    /\ LoaderInit

LoadNext ==
    \/ \E t \in Threads : FromYaml(t)
    \/ \E t \in Threads : Stat(t)
    \/ \E t \in Threads : Lookup(t)
    \/ \E t \in Threads : Hit(t)
    \/ \E t \in Threads : Open(t)
    \/ \E t \in Threads : Construct(t)
    \/ \E t \in Threads : Insert(t)
    \/ ClearYamlCache
    \/ WriteFile
    \/ RemoveFile

LoadSpec == LoadInit /\ [][LoadNext]_vars

(***************************************************************************)
(* The resolver as a state machine: matrix is self._matrix, call the last  *)
(* method call with its arguments, result what that call returned or       *)
(* raised.                                                                 *)
(***************************************************************************)

Init ==
    /\ matrix \in Matrices
    /\ call = [op |-> "none"]
    /\ result = [kind |-> "none"]
    /\ file = [exists |-> FALSE, mtime |-> 1, source |-> "empty"]
    /\ LoaderInit

ValidateEnvironment ==
    /\ call.op = "none"
    /\ \E d \in DriverInputs, os \in EnvOsInputs, npu \in EnvNpuInputs,
       arch \in ArchInputs :
        LET env == [driver_version |-> d, os_name |-> os, npu_type |-> npu,
                    arch |-> arch]
        IN /\ call' = [op |-> "validate_environment", env |-> env]
           /\ result' = validate_environment(matrix, env)
           /\ UNCHANGED <<matrix, loader>>

FindCompatibleCann ==
    /\ call.op = "none"
    /\ \E d \in DriverInputs, os \in OsFilters, npu \in NpuFilters :
        /\ call' = [op |-> "find_compatible_cann", driver_version |-> d,
                    os_name |-> os, npu_type |-> npu]
        /\ result' = find_compatible_cann(matrix, d, os, npu)
        /\ UNCHANGED <<matrix, loader>>

GetRecommendedCann ==
    /\ call.op = "none"
    /\ \E d \in DriverInputs, os \in OsFilters, npu \in NpuFilters :
        /\ call' = [op |-> "get_recommended_cann", driver_version |-> d,
                    os_name |-> os, npu_type |-> npu]
        /\ result' = get_recommended_cann(matrix, d, os, npu)
        /\ UNCHANGED <<matrix, loader>>

\* list_cann_versions that reorders the dict it reads.
ListCannVersions_in_place ==
    /\ call.op = "none"
    /\ \E include_deprecated \in BOOLEAN :
        /\ call' = [op |-> "list_cann_versions",
                    include_deprecated |-> include_deprecated]
        /\ result' = Return(list_cann_versions(matrix, include_deprecated))
        /\ matrix' = [i \in 1..Len(matrix) |-> matrix[Len(matrix) + 1 - i]]
        /\ UNCHANGED loader

ListCannVersions ==
    /\ call.op = "none"
    /\ \E include_deprecated \in BOOLEAN :
        /\ call' = [op |-> "list_cann_versions",
                    include_deprecated |-> include_deprecated]
        /\ result' = Return(list_cann_versions(matrix, include_deprecated))
        /\ UNCHANGED <<matrix, loader>>

CheckDriverCompatibility ==
    /\ call.op = "none"
    /\ \E d \in DriverInputs, v \in CannVersionInputs :
        /\ call' = [op |-> "check_driver_compatibility",
                    driver_version |-> d, cann_version |-> v]
        /\ result' = check_driver_compatibility(matrix, d, v)
        /\ UNCHANGED <<matrix, loader>>

CheckOsCompatibility ==
    /\ call.op = "none"
    /\ \E os \in OsInputs, v \in CannVersionInputs :
        /\ call' = [op |-> "check_os_compatibility", os_name |-> os,
                    cann_version |-> v]
        /\ result' = check_os_compatibility(matrix, os, v)
        /\ UNCHANGED <<matrix, loader>>

CheckNpuCompatibility ==
    /\ call.op = "none"
    /\ \E npu \in NpuInputs, v \in CannVersionInputs :
        /\ call' = [op |-> "check_npu_compatibility", npu_type |-> npu,
                    cann_version |-> v]
        /\ result' = check_npu_compatibility(matrix, npu, v)
        /\ UNCHANGED <<matrix, loader>>

GetCannRequirements ==
    /\ call.op = "none"
    /\ \E v \in CannVersionInputs :
        /\ call' = [op |-> "get_cann_requirements", cann_version |-> v]
        /\ result' = get_cann_requirements(matrix, v)
        /\ UNCHANGED <<matrix, loader>>

GetFrameworkConfig ==
    /\ call.op = "none"
    /\ \E v \in CannVersionInputs, f \in FrameworkInputs :
        /\ call' = [op |-> "get_framework_config", cann_version |-> v,
                    framework |-> f]
        /\ result' = get_framework_config(matrix, v, f)
        /\ UNCHANGED <<matrix, loader>>

FindFrameworkConfig ==
    /\ call.op = "none"
    /\ \E v \in CannVersionInputs, f \in FrameworkInputs :
        /\ call' = [op |-> "find_framework_config", cann_version |-> v,
                    framework |-> f]
        /\ result' = find_framework_config(matrix, v, f)
        /\ UNCHANGED <<matrix, loader>>

GetFramework ==
    /\ call.op = "none"
    /\ \E v \in CannVersionInputs, f \in FrameworkInputs :
        /\ call' = [op |-> "get_framework", cann_version |-> v,
                    framework |-> f]
        /\ result' = get_framework(matrix, v, f)
        /\ UNCHANGED <<matrix, loader>>

\* The caller is done with what the call returned or raised: the resolver
\* keeps nothing of a call, and the next call starts from the matrix alone.
Discard ==
    /\ call.op # "none"
    /\ call' = [op |-> "none"]
    /\ result' = [kind |-> "none"]
    /\ UNCHANGED <<matrix, loader>>

Next ==
    \/ ValidateEnvironment
    \/ FindCompatibleCann
    \/ GetRecommendedCann
    \/ ListCannVersions
    \/ CheckDriverCompatibility
    \/ CheckOsCompatibility
    \/ CheckNpuCompatibility
    \/ GetCannRequirements
    \/ GetFrameworkConfig
    \/ FindFrameworkConfig
    \/ GetFramework
    \/ Discard

Spec == Init /\ [][Next]_vars

(***************************************************************************)
(* Vocabulary of the properties                                            *)
(***************************************************************************)

\* a >= b and a <= b as versions; neither holds when a or b is no version.
VersionGeq(a, b) ==
    /\ parse_version(a).valid /\ parse_version(b).valid
    /\ CmpParsed(parse_version(a), parse_version(b)) >= 0

VersionLeq(a, b) ==
    /\ parse_version(a).valid /\ parse_version(b).valid
    /\ CmpParsed(parse_version(a), parse_version(b)) <= 0

VersionLess(a, b) ==
    /\ parse_version(a).valid /\ parse_version(b).valid
    /\ CmpParsed(parse_version(a), parse_version(b)) < 0

\* The maximum is absent: None, or the empty string, which names no bound.
MaxAbsent(entry) ==
    entry.max_driver_version = None \/ entry.max_driver_version = << >>

\* The driver lies within [min, max] of the entry, max unbounded if absent.
DriverInRange(entry, driver) ==
    /\ VersionGeq(driver, entry.min_driver_version)
    /\ MaxAbsent(entry) \/ VersionLeq(driver, entry.max_driver_version)

\* The entry satisfies all four predicates for env.
Passes(entry, env) ==
    /\ DriverInRange(entry, env.driver_version)
    /\ In(env.os_name, entry.supported_os)
    /\ In(env.npu_type, entry.supported_npu)
    /\ In(env.arch, entry.supported_arch)

\* The keys whose entries satisfy all four predicates for env.
PassingKeys(m, env) ==
    { m[i].version : i \in { j \in 1..Len(m) : Passes(m[j].entry, env) } }

Elements(list) == { list[i] : i \in 1..Len(list) }

NoDuplicates(list) ==
    \A i, j \in 1..Len(list) : list[i] = list[j] => i = j

\* Newest first: no element is followed by a strictly greater one.
Descending(list) ==
    \A i, j \in 1..Len(list) : i < j => ~VersionLess(list[i], list[j])

\* Strictly descending: every element is strictly greater than its followers.
StrictlyDescending(list) ==
    \A i, j \in 1..Len(list) : i < j => VersionLess(list[j], list[i])

ValidKeys(keys) == { k \in keys : parse_version(k).valid }

Returned == result.kind = "return"

Raised(exc) == result.kind = "raise" /\ result.exc = exc

(***************************************************************************)
(* Properties of validate_environment                                      *)
(***************************************************************************)

\* C1: for every accepted matrix and every env, validate_environment(env)
\* returns valid = true if and only if at least one entry satisfies all four
\* predicates (driver within [min, max] as versions, os, npu and arch
\* membership).
C1_ValidIffSomeEntryPasses ==
    call.op = "validate_environment" =>
        ((Returned /\ result.valid) <=> PassingKeys(matrix, call.env) # {})

\* C2: in every ValidationResult that validate_environment returns, errors
\* is non-empty exactly when valid is false.
C2_ErrorsIffInvalid ==
    (call.op = "validate_environment" /\ Returned) =>
        ((result.errors # << >>) <=> ~result.valid)

\* C2 witness: a returned result that is invalid and carries errors.
C2_Witness ==
    /\ call.op = "validate_environment"
    /\ Returned
    /\ ~result.valid
    /\ Len(result.errors) = 2

\* C3: compatible_cann_versions holds exactly the keys whose entries satisfy
\* all four predicates, none twice, strictly descending by version.
C3_CompatibleExactAndStrictlyDescending ==
    call.op = "validate_environment" =>
        /\ PassingKeys(matrix, call.env) # {} => Returned
        /\ Returned =>
            /\ Elements(result.compatible_cann_versions)
                 = PassingKeys(matrix, call.env)
            /\ NoDuplicates(result.compatible_cann_versions)
            /\ StrictlyDescending(result.compatible_cann_versions)

\* C4: every deprecated entry that satisfies all four predicates adds one
\* warning that names its version, is listed in compatible_cann_versions and
\* adds no error, so that the environment is valid.
C4_DeprecatedMatchWarnsAndCounts ==
    call.op = "validate_environment" =>
        \A i \in 1..Len(matrix) :
            (Passes(matrix[i].entry, call.env) /\ matrix[i].entry.deprecated)
            => /\ Returned
               /\ Cardinality({ w \in 1..Len(result.warnings) :
                     /\ result.warnings[w].fmt = "CANN {} is deprecated"
                     /\ result.warnings[w].version = matrix[i].version }) = 1
               /\ In(matrix[i].version, result.compatible_cann_versions)
               /\ result.errors = << >>
               /\ result.valid

(***************************************************************************)
(* Properties of find_compatible_cann, get_recommended_cann and            *)
(* list_cann_versions                                                      *)
(***************************************************************************)

\* The keys find_compatible_cann is to return: entry not deprecated, driver
\* within [min, max], os supported when os is given, npu supported when npu
\* is given.
FindKeys(m, driver, os, npu) ==
    { m[i].version : i \in { j \in 1..Len(m) :
        /\ ~m[j].entry.deprecated
        /\ DriverInRange(m[j].entry, driver)
        /\ os # NoneStr => In(os, m[j].entry.supported_os)
        /\ npu # NoneStr => In(npu, m[j].entry.supported_npu) } }

\* C5: find_compatible_cann(driver, os, npu) returns, newest first, exactly
\* the keys of the entries that are not deprecated, have the driver within
\* [min, max] as versions, support os when given and npu when given; no
\* deprecated entry is returned.
C5_FindReturnsExactlyMatching ==
    call.op = "find_compatible_cann" =>
        LET want == FindKeys(matrix, call.driver_version, call.os_name,
                             call.npu_type)
        IN /\ want # {} => Returned
           /\ Returned =>
               /\ Elements(result.value) = want
               /\ NoDuplicates(result.value)
               /\ Descending(result.value)
               /\ \A i \in 1..Len(matrix) :
                      matrix[i].entry.deprecated
                      => ~In(matrix[i].version, result.value)

\* C6: get_recommended_cann returns None iff find_compatible_cann, called
\* with the same arguments, returns the empty list; otherwise it returns a
\* member of that list that no other member exceeds as a version.
C6_RecommendedIsNewestFound ==
    call.op = "get_recommended_cann" =>
        LET found == find_compatible_cann(matrix, call.driver_version,
                                          call.os_name, call.npu_type)
        IN /\ (Returned /\ result.value = None)
                <=> (found.kind = "return" /\ found.value = << >>)
           /\ (found.kind = "return" /\ found.value # << >>) =>
                /\ Returned
                /\ In(result.value, found.value)
                /\ \A j \in 1..Len(found.value) :
                       ~VersionLess(result.value, found.value[j])

\* C6 witness: a recommendation taken from a list of two versions that do
\* not compare equal.
C6_Witness ==
    /\ call.op = "get_recommended_cann"
    /\ Returned
    /\ result.value # None
    /\ LET found == find_compatible_cann(matrix, call.driver_version,
                                         call.os_name, call.npu_type)
       IN /\ Len(found.value) = 2
          /\ VersionLess(found.value[2], found.value[1])

\* The keys list_cann_versions is to return.
ListKeys(m, include_deprecated) ==
    { m[i].version : i \in { j \in 1..Len(m) :
        include_deprecated \/ ~m[j].entry.deprecated } }

\* C7 as stated: list_cann_versions returns every key (flag true) or exactly
\* the keys of the entries that are not deprecated (flag false), each once,
\* descending by version.
C7_ListReturnsEveryKey ==
    call.op = "list_cann_versions" =>
        /\ Returned
        /\ Elements(result.value) = ListKeys(matrix, call.include_deprecated)
        /\ NoDuplicates(result.value)
        /\ Descending(result.value)

\* C7 as amended: list_cann_versions returns every key that is a valid
\* version string (flag true) or exactly those of them whose entries are not
\* deprecated (flag false), each once, descending by version; a key that is
\* no valid version string is left out.
C7_ListReturnsEveryValidKey ==
    call.op = "list_cann_versions" =>
        /\ Returned
        /\ Elements(result.value)
             = ValidKeys(ListKeys(matrix, call.include_deprecated))
        /\ NoDuplicates(result.value)
        /\ Descending(result.value)

\* C7 witness: a listing of a matrix with a key that is no valid version
\* string; the other key is listed and that key is left out.
C7_Witness ==
    /\ call.op = "list_cann_versions"
    /\ Returned
    /\ Len(matrix) = 2
    /\ HasKey(matrix, Str_abc)
    /\ Len(result.value) = 1
    /\ result.value[1] # Str_abc

(***************************************************************************)
(* Properties of the check methods                                         *)
(***************************************************************************)

\* C8: check_driver_compatibility raises DriverIncompatibleError, carrying
\* the driver and the maximum, whenever the version is a key, the driver is
\* at least the minimum and exceeds the entry's maximum.
C8_AboveMaxRaisesDriverIncompatible ==
    ( /\ call.op = "check_driver_compatibility"
      /\ HasKey(matrix, call.cann_version)
      /\ LET entry == get_cann_version(matrix, call.cann_version)
         IN /\ VersionGeq(call.driver_version, entry.min_driver_version)
            /\ ~MaxAbsent(entry)
            /\ VersionLess(entry.max_driver_version, call.driver_version) )
    => /\ Raised("DriverIncompatibleError")
       /\ result.driver_version = call.driver_version

\* C9: check_driver_compatibility raises VersionNotFoundError when the
\* version is no key, whatever the driver; raises DriverIncompatibleError
\* with the driver and the minimum in its message when the driver is below
\* the minimum; returns normally when the driver lies within [min, max].
C9_CheckDriverOutcomes ==
    call.op = "check_driver_compatibility" =>
        IF ~HasKey(matrix, call.cann_version)
        THEN /\ Raised("VersionNotFoundError")
             /\ result.version = call.cann_version
        ELSE LET entry == get_cann_version(matrix, call.cann_version)
             IN /\ VersionLess(call.driver_version, entry.min_driver_version)
                   => /\ Raised("DriverIncompatibleError")
                      /\ result.message.driver_version = call.driver_version
                      /\ result.message.min_required
                           = entry.min_driver_version
                /\ DriverInRange(entry, call.driver_version)
                   => (Returned /\ result.value = None)

\* C9 witness: a driver below the minimum of a present version.
C9_Witness ==
    /\ call.op = "check_driver_compatibility"
    /\ HasKey(matrix, call.cann_version)
    /\ VersionLess(call.driver_version,
                   get_cann_version(matrix, call.cann_version)
                       .min_driver_version)
    /\ Raised("DriverIncompatibleError")

\* C10: check_os_compatibility and check_npu_compatibility raise
\* VersionNotFoundError when the version is no key; otherwise they raise
\* OSNotSupportedError / NPUNotSupportedError if and only if the value is
\* not in the entry's supported_os / supported_npu, and the error carries
\* the value and the supported list.
C10_CheckOsNpuOutcomes ==
    /\ call.op = "check_os_compatibility" =>
        IF ~HasKey(matrix, call.cann_version)
        THEN Raised("VersionNotFoundError")
        ELSE LET entry == get_cann_version(matrix, call.cann_version)
             IN IF In(call.os_name, entry.supported_os)
                THEN Returned /\ result.value = None
                ELSE /\ Raised("OSNotSupportedError")
                     /\ result.os_name = call.os_name
                     /\ result.supported_os = entry.supported_os
    /\ call.op = "check_npu_compatibility" =>
        IF ~HasKey(matrix, call.cann_version)
        THEN Raised("VersionNotFoundError")
        ELSE LET entry == get_cann_version(matrix, call.cann_version)
             IN IF In(call.npu_type, entry.supported_npu)
                THEN Returned /\ result.value = None
                ELSE /\ Raised("NPUNotSupportedError")
                     /\ result.npu_type = call.npu_type
                     /\ result.supported_npu = entry.supported_npu

\* C10 witness: an operating system that a present version does not support,
\* in a matrix whose entry supports the other one.
C10_Witness ==
    /\ call.op = "check_os_compatibility"
    /\ HasKey(matrix, call.cann_version)
    /\ Raised("OSNotSupportedError")
    /\ result.supported_os # << >>

(***************************************************************************)
(* Properties of the lookups                                               *)
(***************************************************************************)

\* The QueryResult is a failure whose error contains "not found".
NotFoundFailure ==
    /\ Returned
    /\ ~result.success
    /\ result.error.fmt = "CANN version '{}' not found"
    /\ result.error.cann_version = call.cann_version
    /\ Len(result.suggestions) = 1

\* The QueryResult is a success that holds the requirements of the entry.
RequirementsSuccess(entry) ==
    /\ Returned
    /\ result.success
    /\ result.data.min_driver_version = entry.min_driver_version
    /\ result.data.max_driver_version = entry.max_driver_version
    /\ result.data.supported_os = entry.supported_os
    /\ result.data.supported_npu = entry.supported_npu
    /\ result.data.supported_arch = entry.supported_arch
    /\ result.data.frameworks = FrameworkNames(entry)
    /\ result.data.deprecated = entry.deprecated

\* C11 as stated: get_cann_requirements of a version that is no key returns
\* success = false, an error containing "not found" and a suggestion that
\* lists the versions known to the matrix (its keys); of a key it returns
\* success = true with the entry's driver bounds, OS / NPU / arch sets,
\* framework names and deprecated flag.
C11_MissListsEveryKey ==
    call.op = "get_cann_requirements" =>
        IF HasKey(matrix, call.cann_version)
        THEN RequirementsSuccess(get_cann_version(matrix, call.cann_version))
        ELSE /\ NotFoundFailure
             /\ Elements(result.suggestions[1].versions)
                  = Elements(Keys(matrix))

\* C11 as amended: the suggestion of a miss lists what list_cann_versions()
\* returns by default: the keys that are valid version strings and whose
\* entries are not deprecated, newest first; a hit is as stated.
C11_MissListsDefaultListing ==
    call.op = "get_cann_requirements" =>
        IF HasKey(matrix, call.cann_version)
        THEN RequirementsSuccess(get_cann_version(matrix, call.cann_version))
        ELSE /\ NotFoundFailure
             /\ Elements(result.suggestions[1].versions)
                  = ValidKeys(ListKeys(matrix, FALSE))
             /\ NoDuplicates(result.suggestions[1].versions)
             /\ Descending(result.suggestions[1].versions)

\* C11 witness: a miss on a matrix with a deprecated entry and an entry that
\* is not deprecated; the suggestion lists the latter's key alone.
C11_Witness ==
    /\ call.op = "get_cann_requirements"
    /\ ~HasKey(matrix, call.cann_version)
    /\ Len(matrix) = 2
    /\ matrix[1].entry.deprecated
    /\ ~matrix[2].entry.deprecated
    /\ Returned
    /\ result.suggestions[1].versions = <<matrix[2].version>>

\* The data of a successful find_framework_config is the config.
SameConfiguration(data, config) ==
    /\ data.version = config.version
    /\ data.torch_npu_version = config.torch_npu_version
    /\ data.python_versions = config.python_versions
    /\ data.whl_url = config.whl_url
    /\ data.install_command = config.install_command

\* What the two other lookups of (cann_version, framework) give, next to a
\* find_framework_config result found: get_framework_config gives got and
\* get_framework gives raised_or_got.
FrameworkLookupsAgree(found, got, raised_or_got, version_is_key) ==
    /\ found.kind = "return"
    /\ got.kind = "return"
    /\ (got.value = NoneRec) <=> ~found.success
    /\ ~found.success <=> raised_or_got.kind = "raise"
    /\ raised_or_got.kind = "raise" =>
          raised_or_got.exc = IF version_is_key
                              THEN "FrameworkNotFoundError"
                              ELSE "VersionNotFoundError"
    /\ found.success =>
          /\ raised_or_got.value = got.value
          /\ SameConfiguration(found.data, got.value)

\* C12: the two error conventions agree on every lookup:
\* get_cann_requirements(version).success is false iff
\* get_cann_entry(version) raises VersionNotFoundError;
\* get_framework_config(version, framework) is None iff
\* find_framework_config(version, framework).success is false iff
\* get_framework(version, framework) raises (VersionNotFoundError when the
\* version is no key, FrameworkNotFoundError when only the framework is
\* missing); on a hit all three give the same configuration.
C12_ConventionsAgree ==
    /\ call.op = "get_cann_requirements" =>
          /\ Returned
          /\ ~result.success <=>
                get_cann_entry(matrix, call.cann_version).kind = "raise"
          /\ ~result.success =>
                get_cann_entry(matrix, call.cann_version).exc
                  = "VersionNotFoundError"
    /\ call.op = "find_framework_config" =>
          FrameworkLookupsAgree(
              result,
              get_framework_config(matrix, call.cann_version, call.framework),
              get_framework(matrix, call.cann_version, call.framework),
              HasKey(matrix, call.cann_version))
    /\ call.op = "get_framework_config" =>
          FrameworkLookupsAgree(
              find_framework_config(matrix, call.cann_version,
                                    call.framework),
              result,
              get_framework(matrix, call.cann_version, call.framework),
              HasKey(matrix, call.cann_version))
    /\ call.op = "get_framework" =>
          FrameworkLookupsAgree(
              find_framework_config(matrix, call.cann_version,
                                    call.framework),
              get_framework_config(matrix, call.cann_version, call.framework),
              result,
              HasKey(matrix, call.cann_version))

\* C12 witness: get_framework of a key whose entry lacks the framework
\* raises FrameworkNotFoundError that names the frameworks the entry has.
C12_Witness ==
    /\ call.op = "get_framework"
    /\ HasKey(matrix, call.cann_version)
    /\ Raised("FrameworkNotFoundError")
    /\ result.available_frameworks # << >>

(***************************************************************************)
(* Properties of the error conventions                                     *)
(***************************************************************************)

\* The methods that report through their result.
ResultStyle ==
    {"validate_environment", "find_compatible_cann", "get_recommended_cann",
     "get_cann_requirements", "find_framework_config", "list_cann_versions"}

\* C13: the result-style methods never let an exception out: for every
\* accepted matrix and every argument, a driver string that is no valid
\* version included, the call returns a value.
C13_ResultStyleAlwaysReturns ==
    call.op \in ResultStyle => Returned

(***************************************************************************)
(* Properties of matrix construction and of the loader                     *)
(***************************************************************************)

\* The invariants of an entry: a valid minimum driver version, non-empty
\* supported_os / supported_npu / supported_arch, and frameworks with a valid
\* version and non-empty python_versions.
EntryInvariants(entry) ==
    /\ parse_version(entry.min_driver_version).valid
    /\ entry.supported_os # << >>
    /\ entry.supported_npu # << >>
    /\ entry.supported_arch # << >>
    /\ \A i \in 1..Len(entry.frameworks) :
          /\ parse_version(entry.frameworks[i].config.version).valid
          /\ entry.frameworks[i].config.python_versions # << >>

\* The dict has one of the defects that make construction fail.
Defective(items) ==
    \/ ~parse_version(items.version).valid
    \/ "cann_versions" \notin DOMAIN items
    \/ items.cann_versions = << >>
    \/ \E i \in 1..Len(items.cann_versions) :
          ~EntryInvariants(items.cann_versions[i].entry)

\* A matrix that exists: at least one entry, every entry within its
\* invariants, and a valid schema version.
WellFormed(m) ==
    /\ parse_version(m.version).valid
    /\ Len(m.cann_versions) >= 1
    /\ \A i \in 1..Len(m.cann_versions) :
          EntryInvariants(m.cann_versions[i].entry)

\* The matrix objects that exist: those in the cache, those a from_yaml call
\* has constructed and those inside the resolvers handed out.
ExistingMatrices ==
    { yaml_cache[k] : k \in DOMAIN yaml_cache }
      \cup { frames[t].matrix : t \in { u \in Threads :
                                         frames[u].matrix # NoneRec } }
      \cup { frames[t].result.resolver._matrix :
               t \in { u \in Threads : frames[u].result.kind = "return" } }

\* The from_yaml call of t has constructed a matrix from its data.
Constructed(t) == frames[t].matrix # NoneRec

\* The from_yaml call of t has read a dict and gone through construction.
PastConstruction(t) ==
    /\ frames[t].data.type = "dict"
    /\ frames[t].pc \in {"insert", "done"}

\* C14: construction is all-or-nothing: it fails when the schema version is
\* no valid version, when cann_versions is absent or empty, or when an entry
\* has an invalid min_driver_version, an empty supported_os / supported_npu /
\* supported_arch or a framework with an invalid version or empty
\* python_versions; every matrix that exists has at least one entry and every
\* entry satisfies those invariants.
C14_ConstructionAllOrNothing ==
    /\ \A t \in Threads :
          (PastConstruction(t) /\ Defective(frames[t].data.items)) =>
              /\ ~Constructed(t)
              /\ frames[t].result.kind = "raise"
    /\ \A m \in ExistingMatrices : WellFormed(m.value)

\* C14 witness: a from_yaml call whose dict has a good first entry and a
\* second entry with a framework without python_versions has failed, and
\* no matrix was made of it.
C14_Witness ==
    \E t \in Threads :
        /\ frames[t].pc = "done"
        /\ frames[t].data = safe_load("no_python_versions").value
        /\ frames[t].result.kind = "raise"
        /\ ~Constructed(t)

\* C15: from_yaml either returns a resolver over a fully validated matrix or
\* raises ConfigurationError with at least one suggestion: a missing file, an
\* unparseable source, a source whose top level is empty or no mapping and a
\* source that fails construction all end in ConfigurationError and in no
\* other exception.
C15_LoadReturnsOrConfigurationError ==
    \A t \in Threads :
        frames[t].pc = "done" =>
            \/ /\ frames[t].result.kind = "return"
               /\ WellFormed(frames[t].result.resolver._matrix.value)
            \/ /\ frames[t].result.kind = "raise"
               /\ frames[t].result.exc = "ConfigurationError"
               /\ frames[t].result.suggestions # << >>

\* The cache key of the from_yaml call of t.
KeyOf(t) == cache_key(ResolvedPath, frames[t].mtime)

\* The from_yaml call of t has parsed the file.
Parsed(t) == frames[t].data # Unbound

\* The from_yaml call of t has returned a resolver, and it began after a
\* load of the same key had succeeded, with no clear since that load.
ReloadReturned(t) ==
    /\ frames[t].pc = "done"
    /\ frames[t].result.kind = "return"
    /\ KeyOf(t) \in DOMAIN frames[t].prior
    /\ ~frames[t].cleared

\* A from_yaml call that stores changes the cache at its own key only, and
\* puts there the matrix it has constructed from the file it parsed.
InsertsExactlyItsKey ==
    \A t \in Threads :
        (frames[t].pc = "insert" /\ frames'[t].pc = "done") =>
            /\ Parsed(t)
            /\ DOMAIN yaml_cache' = DOMAIN yaml_cache \cup {KeyOf(t)}
            /\ yaml_cache'[KeyOf(t)] = frames[t].matrix
            /\ \A k \in DOMAIN yaml_cache \ {KeyOf(t)} :
                  yaml_cache'[k] = yaml_cache[k]

\* A from_yaml call that finds its key in the cache goes on to return what
\* the cache holds, and one that does not goes on to parse the file.
MissParses ==
    \A t \in Threads :
        (frames[t].pc = "lookup" /\ frames'[t].pc # "lookup") =>
            IF KeyOf(t) \in DOMAIN yaml_cache
            THEN frames'[t].pc = "hit"
            ELSE frames'[t].pc = "open"

\* C16 as stated: after a successful load, every later load of the same path
\* with the same modification time and no clear in between parses nothing,
\* constructs nothing and returns a resolver that wraps the very matrix
\* object the first load built; a load whose key is not in the cache parses
\* the file and inserts exactly that key.
C16_ReloadReturnsFirstObject ==
    /\ [](\A t \in Threads :
            ReloadReturned(t) =>
                /\ ~Parsed(t)
                /\ ~Constructed(t)
                /\ frames[t].result.resolver._matrix
                     = frames[t].prior[KeyOf(t)])
    /\ [][InsertsExactlyItsKey /\ MissParses]_vars

\* A from_yaml call that found its key in the cache returns a resolver that
\* wraps the object the cache holds for the key at that moment.
HitReturnsCached ==
    \A t \in Threads :
        (frames[t].pc = "hit" /\ frames'[t].pc = "done"
            /\ frames'[t].result.kind = "return") =>
            frames'[t].result = Resolver(yaml_cache[KeyOf(t)])

\* C16 (amended): after a successful load, every later load of the same path
\* with the same modification time and no clear in between parses nothing,
\* constructs nothing and returns a resolver that wraps the matrix the cache
\* holds for that key; that is the object the first load built unless an
\* overlapping load of the same key has replaced it in the cache. A load
\* whose key is not in the cache goes on to parse the file, and when it
\* stores it changes the cache at exactly that key.
C16_ReloadReturnsCachedObject ==
    /\ [](\A t \in Threads :
            ReloadReturned(t) =>
                /\ ~Parsed(t)
                /\ ~Constructed(t)
                /\ \/ frames[t].result.resolver._matrix
                        = frames[t].prior[KeyOf(t)]
                   \/ KeyOf(t) \notin DOMAIN yaml_cache
                   \/ yaml_cache[KeyOf(t)] # frames[t].prior[KeyOf(t)])
    /\ [][HitReturnsCached /\ InsertsExactlyItsKey /\ MissParses]_vars

\* C16 witness: a load that began after a successful load of the same key
\* has returned that load's object from the cache without parsing, and the
\* cache holds exactly the key that the first load inserted.
C16_Witness ==
    \E t \in Threads :
        /\ ReloadReturned(t)
        /\ ~Parsed(t)
        /\ frames[t].result.resolver._matrix = frames[t].prior[KeyOf(t)]
        /\ DOMAIN yaml_cache = {KeyOf(t)}

\* The from_yaml call of t has returned a resolver after it missed the cache
\* and parsed the file, the file is the one it saw, and the cache has not
\* been cleared since.
LoadedUncached(t) ==
    /\ frames[t].pc = "done"
    /\ frames[t].result.kind = "return"
    /\ Parsed(t)
    /\ ~frames[t].cleared
    /\ file.exists
    /\ file.mtime = frames[t].mtime
    /\ KeyOf(t) \in DOMAIN built

\* C17: two threads that both missed the cache for the same path and
\* modification time and both parsed the file obtain resolvers over matrices
\* of equal value, and the cache holds for that key one fully validated
\* matrix of that value.
C17_ConcurrentLoadsAgree ==
    \A t \in Threads : \A u \in Threads \ {t} :
        (LoadedUncached(t) /\ LoadedUncached(u) /\ KeyOf(t) = KeyOf(u)) =>
            /\ frames[t].result.resolver._matrix.value
                 = frames[u].result.resolver._matrix.value
            /\ KeyOf(t) \in DOMAIN yaml_cache
            /\ WellFormed(yaml_cache[KeyOf(t)].value)
            /\ yaml_cache[KeyOf(t)].value
                 = frames[t].result.resolver._matrix.value
            /\ yaml_cache[KeyOf(t)]
                 \in {frames[t].result.resolver._matrix,
                      frames[u].result.resolver._matrix}

\* C17 witness: both threads have parsed the same file under the same key,
\* each has built its own matrix object, and the cache holds one of the two.
C17_Witness ==
    \E t \in Threads : \E u \in Threads \ {t} :
        /\ LoadedUncached(t) /\ LoadedUncached(u)
        /\ KeyOf(t) = KeyOf(u)
        /\ frames[t].result.resolver._matrix
             # frames[u].result.resolver._matrix
        /\ yaml_cache[KeyOf(t)] = frames[u].result.resolver._matrix

(***************************************************************************)
(* The functions of adk_core/version.py on their own                       *)
(***************************************************************************)

\* Longest list of version strings given to the functions.
MaxLen == 3

\* The strings the lists are made of: releases of different length and
\* value, each kind of marker on one release, and a string that is no
\* version.
VersionInputs ==
    {Str_8_0, Str_8_0_0, Str_9_0_0, Str_10_0_0, Str_8_0_dev1, Str_8_0_a1,
     Str_8_0_a2, Str_8_0_b1, Str_8_0_rc1, Str_8_0_rc2, Str_8_0_post1,
     Str_abc}

\* Every list of at most MaxLen of these strings.
VersionLists == UNION {[1..n -> VersionInputs] : n \in 0..MaxLen}

\* compare_versions(v1, v2) for every v1 and v2 of the list.
CompareVersions ==
    /\ call.op = "none"
    /\ call' = [call EXCEPT !.op = "compare_versions"]
    /\ result' = [kind |-> "compare_versions",
                  value |-> [i \in DOMAIN call.versions |->
                               [j \in DOMAIN call.versions |->
                                  compare_versions(call.versions[i],
                                                   call.versions[j])]]]
    /\ UNCHANGED <<matrix, loader>>

\* is_compatible(current, minimum_required) for every current and
\* minimum_required of the list.
IsCompatible ==
    /\ call.op = "none"
    /\ call' = [call EXCEPT !.op = "is_compatible"]
    /\ result' = [kind |-> "is_compatible",
                  value |-> [i \in DOMAIN call.versions |->
                               [j \in DOMAIN call.versions |->
                                  is_compatible(call.versions[i],
                                                call.versions[j])]]]
    /\ UNCHANGED <<matrix, loader>>

\* sort_versions(versions, reverse=False) and
\* sort_versions(versions, reverse=True) of the list.
SortVersions ==
    /\ call.op = "none"
    /\ call' = [call EXCEPT !.op = "sort_versions"]
    /\ result' = [kind |-> "sort_versions",
                  ascending |-> sort_versions(call.versions, FALSE),
                  descending |-> sort_versions(call.versions, TRUE)]
    /\ UNCHANGED <<matrix, loader>>

\* The optional bounds given to find_latest_compatible: None, the empty
\* string, two versions and a string that is no version.
BoundInputs == {None, Str_empty, Str_8_0_0, Str_9_0_0, Str_abc}

\* find_latest_compatible(available_versions, max_version, min_version) of
\* the list.
FindLatestCompatible ==
    /\ call.op = "none"
    /\ \E max_version \in BoundInputs : \E min_version \in BoundInputs :
          /\ call' = [op |-> "find_latest_compatible",
                      versions |-> call.versions,
                      max_version |-> max_version,
                      min_version |-> min_version]
          /\ result' = [kind |-> "find_latest_compatible",
                        value |-> find_latest_compatible(call.versions,
                                                         max_version,
                                                         min_version)]
    /\ UNCHANGED <<matrix, loader>>

VersionInit ==
    /\ matrix = << >>
    /\ call \in [op : {"none"}, versions : VersionLists]
    /\ result = [kind |-> "none"]
    /\ file = [exists |-> FALSE, mtime |-> 1, source |-> "empty"]
    /\ LoaderInit

VersionNext ==
    CompareVersions \/ IsCompatible \/ SortVersions \/ FindLatestCompatible

VersionSpec == VersionInit /\ [][VersionNext]_vars

\* The positions of the list that hold a valid version string.
ValidPositions == {i \in DOMAIN call.versions : is_version_valid(call.versions[i])}

\* C18: on valid version strings compare_versions returns one of -1, 0, 1,
\* compare(a, a) = 0, compare(a, b) = -compare(b, a), and compare(a, b) >= 0
\* with compare(b, c) >= 0 gives compare(a, c) >= 0; is_compatible(current,
\* minimum) is true exactly when compare(current, minimum) >= 0, so
\* is_compatible(x, x) is true.
C18_CompareIsTotalOrder ==
    /\ result.kind = "compare_versions" =>
          \A i \in ValidPositions : \A j \in ValidPositions :
              /\ ~result.value[i][j].raise
              /\ result.value[i][j].val \in {-1, 0, 1}
              /\ result.value[i][i].val = 0
              /\ result.value[i][j].val = -result.value[j][i].val
              /\ \A k \in ValidPositions :
                    (result.value[i][j].val >= 0 /\ result.value[j][k].val >= 0)
                        => result.value[i][k].val >= 0
    /\ result.kind = "is_compatible" =>
          \A i \in ValidPositions : \A j \in ValidPositions :
              /\ ~result.value[i][j].raise
              /\ result.value[i][j].val
                   = (compare_versions(call.versions[i],
                                       call.versions[j]).val >= 0)
              /\ result.value[i][i].val = TRUE

\* C18 witness: compare_versions has been applied to three valid strings
\* a > b > c, and has given compare(a, c) = 1 and compare(c, a) = -1.
C18_Witness ==
    /\ result.kind = "compare_versions"
    /\ ValidPositions = {1, 2, 3}
    /\ result.value[1][2].val = 1
    /\ result.value[2][3].val = 1
    /\ result.value[1][3].val = 1
    /\ result.value[3][1].val = -1

\* Segment i of a release, zero when the release has fewer segments.
SegmentAt(rel, i) == IF i <= Len(rel) THEN rel[i] ELSE 0

\* Order of two releases compared segment by segment from segment i, the
\* shorter one padded with zeros: -1, 0 or 1.
RECURSIVE ReleaseOrder(_, _, _)
ReleaseOrder(a, b, i) ==
    IF i > Len(a) /\ i > Len(b) THEN 0
    ELSE IF SegmentAt(a, i) < SegmentAt(b, i) THEN -1
    ELSE IF SegmentAt(a, i) > SegmentAt(b, i) THEN 1
    ELSE ReleaseOrder(a, b, i + 1)

\* A parsed version with at most one of the three markers.
OneMarker(v) ==
    /\ ~(v.pre.some /\ v.post.some)
    /\ ~(v.pre.some /\ v.dev.some)
    /\ ~(v.post.some /\ v.dev.some)

\* Kind of such a version: 0 dev release, 1 pre-release, 2 final release,
\* 3 post-release.
Phase(v) ==
    IF v.dev.some THEN 0
    ELSE IF v.pre.some THEN 1
    ELSE IF v.post.some THEN 3
    ELSE 2

\* -1, 0 or 1 as the integer x is below, at or above the integer y.
Sign(x, y) == IF x < y THEN -1 ELSE IF x > y THEN 1 ELSE 0

\* The result c of comparing the parsed versions p and q follows the order
\* of the releases, then of the kinds, then of the pre-release stage and
\* number.
OrderedAsStated(p, q, r, c) ==
    /\ r # 0 => c = r
    /\ (r = 0 /\ Phase(p) # Phase(q)) => c = Sign(Phase(p), Phase(q))
    /\ (r = 0 /\ Phase(p) = 2 /\ Phase(q) = 2) => c = 0
    /\ (r = 0 /\ Phase(p) = 1 /\ Phase(q) = 1) =>
          c = IF p.pre.rank # q.pre.rank
              THEN Sign(p.pre.rank, q.pre.rank)
              ELSE Sign(p.pre.n, q.pre.n)

\* C19: compare_versions orders by the release segments compared one by
\* one, missing trailing segments counting as zero; for equal releases a dev
\* release is below a pre-release, which is below the final release, which
\* is below a post-release; pre-releases are ordered alpha, beta, rc and then
\* by their number.
C19_OrderOfReleaseAndMarkers ==
    result.kind = "compare_versions" =>
        \A i \in ValidPositions : \A j \in ValidPositions :
            /\ OneMarker(parse_version(call.versions[i]))
            /\ OrderedAsStated(parse_version(call.versions[i]),
                               parse_version(call.versions[j]),
                               ReleaseOrder(parse_version(call.versions[i]).release,
                                            parse_version(call.versions[j]).release,
                                            1),
                               result.value[i][j].val)

\* C19 witness: compare_versions has been applied to "8.0", "8.0.0" and
\* "8.0.dev1"; the first two have compared equal and the dev release below
\* both.
C19_Witness ==
    /\ result.kind = "compare_versions"
    /\ call.versions = <<Str_8_0, Str_8_0_0, Str_8_0_dev1>>
    /\ result.value[1][2].val = 0
    /\ result.value[3][1].val = -1
    /\ result.value[3][2].val = -1

\* The list read back to front.
Reversed(seq) == [i \in 1..Len(seq) |-> seq[Len(seq) + 1 - i]]

\* The valid entries of the list that compare equal to x, in the order of
\* the list.
EqualTo(seq, x) ==
    SelectSeq(seq, LAMBDA y : /\ is_version_valid(y)
                              /\ compare_versions(y, x).val = 0)

\* The sorted list keeps the entries of versions that compare equal in the
\* order they have in versions.
Stable(versions, sorted) ==
    \A i \in DOMAIN versions :
        is_version_valid(versions[i]) =>
            EqualTo(sorted, versions[i]) = EqualTo(versions, versions[i])

\* Two distinct valid entries of the list compare equal.
HasTie(versions) ==
    \E i \in DOMAIN versions : \E j \in DOMAIN versions :
        /\ versions[i] # versions[j]
        /\ is_version_valid(versions[i])
        /\ is_version_valid(versions[j])
        /\ compare_versions(versions[i], versions[j]).val = 0

\* C20 as stated: for every list, sort_versions(L, reverse=false) read back
\* to front equals sort_versions(L, reverse=true), and entries that compare
\* equal keep their relative input order.
C20_ReversedAscendingIsDescending ==
    result.kind = "sort_versions" =>
        /\ Reversed(result.ascending) = result.descending
        /\ Stable(call.versions, result.ascending)
        /\ Stable(call.versions, result.descending)

\* C20 (amended): in both directions entries that compare equal keep their
\* relative input order; hence sort_versions(L, reverse=false) read back to
\* front equals sort_versions(L, reverse=true) when no two distinct valid
\* entries of L compare equal, and otherwise equals it position by position
\* up to entries that compare equal.
C20_StableInBothDirections ==
    result.kind = "sort_versions" =>
        /\ Stable(call.versions, result.ascending)
        /\ Stable(call.versions, result.descending)
        /\ Len(result.ascending) = Len(result.descending)
        /\ \A k \in DOMAIN result.descending :
              compare_versions(Reversed(result.ascending)[k],
                               result.descending[k]).val = 0
        /\ \A k \in 1..(Len(result.ascending) - 1) :
              /\ compare_versions(result.ascending[k],
                                  result.ascending[k + 1]).val <= 0
              /\ compare_versions(result.descending[k],
                                  result.descending[k + 1]).val >= 0
        /\ ~HasTie(call.versions) =>
              Reversed(result.ascending) = result.descending

\* C20 witness: a list with "8.0.0" before "8.0", which compare equal, and
\* a larger version after them has been sorted; both results keep "8.0.0"
\* before "8.0".
C20_Witness ==
    /\ result.kind = "sort_versions"
    /\ call.versions = <<Str_8_0_0, Str_8_0, Str_9_0_0>>
    /\ result.ascending = <<Str_8_0_0, Str_8_0, Str_9_0_0>>
    /\ result.descending = <<Str_9_0_0, Str_8_0_0, Str_8_0>>

\* How many times the string s occurs in the list.
Count(seq, s) == Cardinality({i \in DOMAIN seq : seq[i] = s})

\* The sorted list holds each valid string as often as versions does and no
\* invalid one.
ExactlyValidEntries(versions, sorted) ==
    \A s \in VersionInputs :
        Count(sorted, s) = IF parse_version(s).valid
                           THEN Count(versions, s)
                           ELSE 0

\* A bound of find_latest_compatible is given and is no valid version.
InvalidBound(bound) == Truthy(bound) /\ ~parse_version(bound).valid

\* C21: sort_versions returns exactly the valid entries of its input, each
\* as often as the input has it, ordered by compare_versions, and the empty
\* list when no entry is valid; find_latest_compatible raises only when a
\* bound is no valid version, never because of an entry of the list, and
\* returns None when no entry is valid.
C21_InvalidEntriesAreDropped ==
    /\ result.kind = "sort_versions" =>
          /\ ExactlyValidEntries(call.versions, result.ascending)
          /\ ExactlyValidEntries(call.versions, result.descending)
          /\ \A k \in 1..(Len(result.ascending) - 1) :
                compare_versions(result.ascending[k],
                                 result.ascending[k + 1]).val <= 0
          /\ \A k \in 1..(Len(result.descending) - 1) :
                compare_versions(result.descending[k],
                                 result.descending[k + 1]).val >= 0
          /\ (\A i \in DOMAIN call.versions :
                ~parse_version(call.versions[i]).valid)
                => (result.ascending = << >> /\ result.descending = << >>)
    /\ result.kind = "find_latest_compatible" =>
          /\ result.value.raise =>
                InvalidBound(call.max_version) \/ InvalidBound(call.min_version)
          /\ (\A i \in DOMAIN call.versions :
                ~parse_version(call.versions[i]).valid)
                => (~result.value.raise /\ result.value.val = None)

\* C21 witness: a list with a string that is no version between two
\* copies of one version has been sorted, and the result is the two copies.
C21_Witness ==
    /\ result.kind = "sort_versions"
    /\ call.versions = <<Str_9_0_0, Str_abc, Str_9_0_0>>
    /\ result.ascending = <<Str_9_0_0, Str_9_0_0>>
    /\ result.descending = <<Str_9_0_0, Str_9_0_0>>

\* The positions of the list whose entry is a valid version within the
\* bounds that are given, both bounds included.
Qualifying(versions, max_version, min_version) ==
    {i \in DOMAIN versions :
        /\ parse_version(versions[i]).valid
        /\ Truthy(min_version) =>
              compare_versions(versions[i], min_version).val >= 0
        /\ Truthy(max_version) =>
              compare_versions(versions[i], max_version).val <= 0}

\* The value val is None when no position qualifies, and otherwise an entry
\* at a qualifying position that no entry at a qualifying position exceeds.
LatestOf(versions, qualifying, val) ==
    /\ val = None <=> qualifying = {}
    /\ qualifying # {} =>
          /\ \E i \in qualifying : versions[i] = val
          /\ \A j \in qualifying : compare_versions(versions[j], val).val <= 0

\* C22: with bounds that are absent or valid versions,
\* find_latest_compatible returns None exactly when no valid entry of the
\* list is at least min (when given) and at most max (when given), and
\* otherwise returns such an entry that no other such entry exceeds; an entry
\* equal to min or to max qualifies.
C22_LatestWithinInclusiveBounds ==
    (/\ result.kind = "find_latest_compatible"
     /\ ~InvalidBound(call.max_version)
     /\ ~InvalidBound(call.min_version)) =>
        /\ ~result.value.raise
        /\ LatestOf(call.versions,
                    Qualifying(call.versions, call.max_version,
                               call.min_version),
                    result.value.val)

\* C22 witness: with min and max both "8.0.0", a list holding a version
\* below, the version "8.0" equal to both bounds, and a version above has
\* given "8.0".
C22_Witness ==
    /\ result.kind = "find_latest_compatible"
    /\ call.versions = <<Str_8_0_rc1, Str_8_0, Str_9_0_0>>
    /\ call.max_version = Str_8_0_0
    /\ call.min_version = Str_8_0_0
    /\ result.value = [raise |-> FALSE, val |-> Str_8_0]

(***************************************************************************)
(* Relations between the resolver's operations                             *)
(***************************************************************************)

\* C23: in every ValidationResult that validate_environment returns, valid
\* is true if and only if compatible_cann_versions is non-empty.
C23_ValidIffListNonEmpty ==
    (call.op = "validate_environment" /\ Returned) =>
        (result.valid <=> result.compatible_cann_versions # << >>)

(***************************************************************************)
(* The resolver that from_yaml has returned, and the cache it left         *)
(***************************************************************************)

\* The sources from which from_yaml returns a resolver.
LoadableSources == {"one_entry", "two_entries"}

\* The matrix object that the first from_yaml call builds from the source.
LoadedObject(source) ==
    [id |-> 1, value |-> CompatibilityMatrix(safe_load(source).value).value]

\* The frame of a thread whose from_yaml call has returned that object.
LoadedFrame(source) ==
    [pc |-> "done", mtime |-> 1, data |-> safe_load(source).value,
     matrix |-> LoadedObject(source),
     result |-> Resolver(LoadedObject(source)),
     prior |-> << >>, cleared |-> FALSE]

\* The state in which thread t1 has loaded the file once: the cache holds
\* the object under the file's key, and the resolver of t1 reads the object's
\* cann_versions.
QueryInit ==
    \E source \in LoadableSources :
        /\ file = [exists |-> TRUE, mtime |-> 1, source |-> source]
        /\ yaml_cache = CacheInsert(<< >>, cache_key(ResolvedPath, 1),
                                    LoadedObject(source))
        /\ built = FirstBuilt(<< >>, cache_key(ResolvedPath, 1),
                              LoadedObject(source))
        /\ frames = [t \in Threads |->
                        IF t = "t1" THEN LoadedFrame(source) ELSE IdleFrame]
        /\ allocated = 1
        /\ calls = 1
        /\ matrix = LoadedObject(source).value.cann_versions
        /\ call = [op |-> "none"]
        /\ result = [kind |-> "none"]

\* The operations of the resolver on the loaded matrix.
QuerySpec == QueryInit /\ [][Next]_vars

\* C24: no query or check operation of the resolver, whether it returns or
\* raises, changes the matrix it reads, the matrix object held by the
\* resolver, or the load cache.
C24_QueriesChangeNothing ==
    [][/\ matrix' = matrix
       /\ yaml_cache' = yaml_cache
       /\ frames'["t1"].result = frames["t1"].result]_vars

\* C24 witness: an operation on the loaded matrix has raised, and the cache
\* still holds the object the resolver reads.
C24_Witness ==
    /\ call.op = "check_os_compatibility"
    /\ result.kind = "raise"
    /\ yaml_cache # << >>
    /\ yaml_cache[cache_key(ResolvedPath, 1)].value.cann_versions = matrix
    /\ Len(matrix) = 2

\* The step is a clear_yaml_cache() of a cache that held something: the
\* record of the objects stored since the last clear starts again.
ClearStep == built # << >> /\ built' = << >>

\* The from_yaml call of t has returned a resolver, it began when no load of
\* its key had succeeded since the last clear, and no other thread has
\* called from_yaml.
FirstLoadReturned(t) ==
    /\ frames[t].pc = "done"
    /\ frames[t].result.kind = "return"
    /\ KeyOf(t) \notin DOMAIN frames[t].prior
    /\ \A u \in Threads \ {t} : frames[u].pc = "idle"

\* C25: clear_yaml_cache empties the cache; the first load after a clear
\* parses and constructs again, also when path and modification time are
\* unchanged, returns the object it has built and has inserted it under its
\* key; a resolver handed out before a clear keeps its matrix object through
\* the clear, and the matrix is one that passed full construction.
C25_ClearForcesReload ==
    /\ [](\A t \in Threads :
            /\ FirstLoadReturned(t) =>
                  /\ Parsed(t)
                  /\ Constructed(t)
                  /\ frames[t].result = Resolver(frames[t].matrix)
                  /\ KeyOf(t) \in DOMAIN yaml_cache =>
                        yaml_cache[KeyOf(t)] = frames[t].matrix
            /\ (frames[t].pc = "done" /\ frames[t].result.kind = "return") =>
                  WellFormed(frames[t].result.resolver._matrix.value))
    /\ [][/\ ClearStep =>
              /\ yaml_cache' = << >>
              /\ \A t \in Threads :
                    frames[t].pc = "done" =>
                        frames'[t].result = frames[t].result
          /\ InsertsExactlyItsKey]_vars

\* C25 witness: a thread has loaded the file, the cache has been cleared,
\* and the thread's second load of the unchanged file has parsed again, has
\* built a second object and has put it in the cache.
C25_Witness ==
    \E t \in Threads :
        /\ FirstLoadReturned(t)
        /\ file.exists
        /\ file.mtime = 1
        /\ frames[t].mtime = 1
        /\ calls = 2
        /\ frames[t].matrix.id = 2
        /\ yaml_cache[KeyOf(t)] = frames[t].matrix

\* The step is one of the from_yaml call of t.
ThreadStep(t) == [frames'[t] EXCEPT !.cleared = frames[t].cleared] # frames[t]

\* C26: a from_yaml call changes the cache in one step only, the store that
\* follows a successful construction and is followed by the return of the
\* resolver; a call that raises (missing file, parse error, construction
\* error) has therefore left every key of the cache as it was, and every
\* value in the cache is a matrix that passed full construction.
C26_FailedLoadKeepsCache ==
    /\ [](\A k \in DOMAIN yaml_cache : WellFormed(yaml_cache[k].value))
    /\ [][\A t \in Threads :
            ThreadStep(t) =>
                IF frames[t].pc = "insert"
                THEN /\ frames'[t].result.kind = "return"
                     /\ Constructed(t)
                ELSE yaml_cache' = yaml_cache]_vars

\* C26 witness: after a load that stored a matrix the file was rewritten
\* with a source that does not load; the next load has raised
\* ConfigurationError and the cache is what it was when that load began.
C26_Witness ==
    \E t \in Threads :
        /\ frames[t].pc = "done"
        /\ frames[t].result.kind = "raise"
        /\ frames[t].result.exc = "ConfigurationError"
        /\ frames[t].mtime = 2
        /\ frames[t].prior # << >>
        /\ yaml_cache = frames[t].prior

\* C27: a from_yaml call that begins when the file does not exist raises
\* ConfigurationError for a file not found before it looks in the cache: it
\* returns no resolver, also when the cache holds a matrix for the path, and
\* the cache keeps every entry.
C27_MissingFileRaisesBeforeCache ==
    [][(calls' = calls + 1 /\ ~file.exists) =>
          /\ yaml_cache' = yaml_cache
          /\ \E t \in Threads :
                /\ frames'[t].pc = "done"
                /\ frames'[t].result = FileNotFound
                /\ frames'[t].data = Unbound
                /\ \A u \in Threads \ {t} : frames'[u] = frames[u]]_vars

\* C27 witness: the file was loaded and then removed; the next load has
\* raised ConfigurationError, and the cache still holds the matrix stored for
\* the path.
C27_Witness ==
    \E t \in Threads :
        /\ ~file.exists
        /\ frames[t].pc = "done"
        /\ frames[t].result = FileNotFound
        /\ cache_key(ResolvedPath, 1) \in DOMAIN yaml_cache
        /\ frames[t].prior = yaml_cache
        /\ \A u \in Threads \ {t} : frames[u].pc = "idle"

\* The versions a validate_environment or find_compatible_cann outcome
\* names: those of the list when it returned, none when it raised.
VersionsOf(outcome, field) ==
    IF outcome.kind = "return" THEN Elements(outcome[field]) ELSE {}

\* The two sets of versions agree on the entries of m that are not
\* deprecated: every validated version of such an entry is found, and every
\* found version whose entry supports arch is validated.
AgreeOnNonDeprecated(m, arch, validated, found) ==
    /\ \A v \in validated :
          ~get_cann_version(m, v).deprecated => v \in found
    /\ \A v \in found :
          In(arch, get_cann_version(m, v).supported_arch) => v \in validated

\* C28: for every env, every non-deprecated version in
\* validate_environment(env).compatible_cann_versions is in
\* find_compatible_cann(env.driver_version, env.os_name, env.npu_type), and
\* every version of that find result whose entry supports env.arch is in
\* compatible_cann_versions.
C28_ValidateAgreesWithFind ==
    call.op = "validate_environment" =>
        AgreeOnNonDeprecated(
            matrix, call.env.arch,
            VersionsOf(result, "compatible_cann_versions"),
            VersionsOf(find_compatible_cann(matrix, call.env.driver_version,
                                            call.env.os_name,
                                            call.env.npu_type),
                       "value"))

\* The three assertion-style checks of env against the version v all
\* return.
ChecksReturn(m, env, v) ==
    /\ check_driver_compatibility(m, env.driver_version, v).kind = "return"
    /\ check_os_compatibility(m, env.os_name, v).kind = "return"
    /\ check_npu_compatibility(m, env.npu_type, v).kind = "return"

\* C29: for every env and every version v in
\* validate_environment(env).compatible_cann_versions the three checks
\* check_driver_compatibility, check_os_compatibility and
\* check_npu_compatibility of env against v return without raising; and a
\* key v of the matrix for which one of them raises is not in
\* compatible_cann_versions.
C29_ChecksAgreeWithValidation ==
    (call.op = "validate_environment" /\ Returned) =>
        /\ \A v \in Elements(result.compatible_cann_versions) :
              ChecksReturn(matrix, call.env, v)
        /\ \A i \in 1..Len(matrix) :
              ~ChecksReturn(matrix, call.env, matrix[i].version) =>
                  matrix[i].version
                      \notin Elements(result.compatible_cann_versions)

\* C29 witness: validate_environment has returned a list with one key of a
\* matrix of two entries; the checks raise for the other key.
C29_Witness ==
    /\ call.op = "validate_environment"
    /\ Returned
    /\ Len(matrix) = 2
    /\ Len(result.compatible_cann_versions) = 1
    /\ \E i \in 1..Len(matrix) :
          /\ HasKey(matrix, matrix[i].version)
          /\ ~ChecksReturn(matrix, call.env, matrix[i].version)
          /\ check_npu_compatibility(matrix, call.env.npu_type,
                                     matrix[i].version).kind = "raise"

\* The versions find_compatible_cann names for the driver of the call with
\* the given filters: those of the list when it returns, none when it
\* raises.
Found(os_name, npu_type) ==
    VersionsOf(find_compatible_cann(matrix, call.driver_version, os_name,
                                    npu_type),
               "value")

\* C30: find_compatible_cann(driver, os, npu) is a subset of
\* find_compatible_cann(driver, os), which is a subset of
\* find_compatible_cann(driver); and for every os and npu that is supplied
\* (not None) the entry of every returned version has os in supported_os and
\* npu in supported_npu.
C30_FiltersNarrowAndApply ==
    (call.op = "find_compatible_cann" /\ Returned) =>
        /\ Elements(result.value) \subseteq Found(call.os_name, NoneStr)
        /\ Found(call.os_name, NoneStr) \subseteq Found(NoneStr, NoneStr)
        /\ \A v \in Elements(result.value) :
              /\ call.os_name # NoneStr =>
                    In(call.os_name, get_cann_version(matrix, v).supported_os)
              /\ call.npu_type # NoneStr =>
                    In(call.npu_type,
                       get_cann_version(matrix, v).supported_npu)
====
